---- MODULE Spec2Model ----
(***************************************************************************)
(* Fleet control plane of the proxy farm: the registry and port allocator  *)
(* (registry.ts), the container lifecycle manager and reconciler           *)
(* (docker.ts), the health prober, the maintenance command and the         *)
(* periodic control loop (health.ts).                                      *)
(*                                                                         *)
(* Node runs the control plane on one event loop.  An `await` of a         *)
(* registry method (they are async but do no I/O) or of an already loaded  *)
(* dynamic import resumes from the microtask queue, before any I/O         *)
(* callback is delivered, so the code between two runtime-API calls,       *)
(* network probes or timers is one atomic step of the model.  Every        *)
(* docker / network / timer await ends a step.                             *)
(***************************************************************************)
EXTENDS Integers, Sequences, FiniteSets, TLC

(***************************************************************************)
(* Bounds of the model                                                     *)
(***************************************************************************)
MaxPort == 4            \* port numbers are 1..MaxPort
ServicePorts == 2       \* size of the port range the concurrent service runs with
MaxIds == 5             \* number of UUIDs / backing units ever created
MaxRestarts == 4        \* operator rotates are not started beyond this count
MaxClients == 2         \* concurrent operator / API requests
MaxCycles == 2          \* control-loop cycles that may overlap
MaxStarted == 3         \* requests, cycles and outside events in one run
FleetSize == 2          \* proxies of the fleet the control loop starts with
MaxDriftStarted == 4    \* requests in one run of create, rotate and reconcile
DrawnIds == 2           \* proxies of a drawn starting state
FreePorts == 3          \* free ports at the start of the create scenario
MaxLoopStarted == 2     \* cycles, rotates and outside events in one loop run
RotateCalls == 2        \* rotateProxy calls of the rotate scenario
OverlapFleet == 3       \* proxies of the fleet whose tunnels are all down
MaxCount == 3           \* proxies one multi-create command is asked for
BatchWidth == 2         \* BATCH_SIZE of pf add, scaled down
MaxAsked == 3           \* ids in one bulkHealthCheck request
MaxRotated == 4         \* rotations of the control loop that are counted
MaxCeilingStarted == 5  \* runCheck runs and outside removals, one never-healthy proxy

RESTART_CEILING == 3        \* health.ts: proxy.restarts >= 3
MAX_CONCURRENT_HEALS == 5   \* health.ts: batch width of the control loop

Ports == 1..MaxPort
Ids == 1..MaxIds
Clients == 1..MaxClients
Cycles == 1..MaxCycles
IPs == {"ip1"}
NoIp == "unset"             \* exitIp: undefined
Countries == {"us"}
NoCountry == "auto"         \* country: undefined (region label 'auto')
None == 0                   \* no id / no port
NoRef == <<0, 0>>           \* null object reference

VARIABLES
  heap,     \* JS objects of type ProxyRecord: handle -> fields
  data,     \* Registry.data (Map<string, ProxyRecord>): id -> handle
  store,    \* the registry file: the records the last save() wrote
  units,    \* the runtime's farm-labelled units (docker containers)
  clock,    \* wall clock, advanced at each timestamp taken
  nextId,   \* next randomUUID()
  config,   \* config.ts: portRangeStart, portRangeEnd, defaultCountry, and
            \* whether piaUsername && piaPassword are set (credsOk)
  tasks,    \* async operations in flight, each suspended at an I/O await
  cyc,      \* per control-loop cycle (runCheck invocation): its progress
  resp,     \* per client: outcome of its last completed request
  call,     \* scenario specifications: inputs and outputs of the calls made
  hist,     \* history: facts about completed operations the claims refer to
  started,  \* number of requests, cycles and outside events so far
  budget    \* how many of those a run of the specification may hold

vars == <<heap, data, store, units, clock, nextId, config, tasks, cyc, resp, call, hist, started, budget>>

(***************************************************************************)
(* Helpers on finite functions and sets                                    *)
(***************************************************************************)
Put(f, k, v) == [x \in (DOMAIN f) \cup {k} |-> IF x = k THEN v ELSE f[x]]

Drop(f, S) == [x \in (DOMAIN f) \ S |-> f[x]]

Range(f) == {f[x] : x \in DOMAIN f}

EmptyFn == [x \in {} |-> 0]

Min(S) == CHOOSE x \in S : \A y \in S : x <= y

(***************************************************************************)
(* types.ts: ProxyRecord                                                   *)
(***************************************************************************)
ProxyRecord(id, containerId, port, healthy, createdAt) ==
  [id |-> id, containerId |-> containerId, port |-> port, country |-> NoCountry,
   exitIp |-> NoIp, healthy |-> healthy, restarts |-> 0, createdAt |-> createdAt]

\* config.ts, as far as the control plane reads it
Config(start, end, ok) ==
  [portRangeStart |-> start, portRangeEnd |-> end, credsOk |-> ok, defaultCountry |-> NoCountry]

\* a unit as docker.listContainers reports it; country is its
\* proxyfarm.country label, absent when the unit was made without one
Unit(id, port, state, created) ==
  [Id |-> id, port |-> port, country |-> NoCountry, State |-> state, Created |-> created]

(***************************************************************************)
(* registry.ts                                                             *)
(* A registry state is the pair (H, D): H the object heap, D the Map.      *)
(* get() hands out the stored object itself, so callers keep a handle.     *)
(***************************************************************************)
Reg(H, D) == [heap |-> H, data |-> D]

\* fresh object handle for a record of this id
NewHandle(H, id) == <<id, Min({k \in 0..Cardinality(DOMAIN H) : <<id, k>> \notin DOMAIN H})>>

\* Registry.add: this.data.set(proxy.id, proxy)
RegAdd(H, D, rec) ==
  LET h == NewHandle(H, rec.id)
  IN Reg(Put(H, h, rec), Put(D, rec.id, h))

\* Registry.get: this.data.get(id) || null
RegGet(D, id) == IF id \in DOMAIN D THEN D[id] ELSE NoRef

\* an update that writes the given fields and forgets the stored exitIp
RegUpdateForgetful(H, D, id, upd) ==
  IF id \notin DOMAIN D THEN Reg(H, D)
  ELSE Reg([H EXCEPT ![D[id]] = [f \in DOMAIN @ |-> IF f \in DOMAIN upd THEN upd[f]
                                                     ELSE IF f = "exitIp" THEN NoIp ELSE @[f]]], D)

\* an update that sets a record for an id the Map does not hold
RegUpdateUpsert(H, D, id, upd) ==
  IF id \notin DOMAIN D
  THEN RegAdd(H, D, [f \in DOMAIN ProxyRecord(id, id, 1, FALSE, 0) |->
                       IF f \in DOMAIN upd THEN upd[f] ELSE ProxyRecord(id, id, 1, FALSE, 0)[f]])
  ELSE Reg([H EXCEPT ![D[id]] = [f \in DOMAIN @ |-> IF f \in DOMAIN upd THEN upd[f] ELSE @[f]]], D)

\* Registry.update: Object.assign(proxy, updates); a no-op for an absent id
RegUpdate(H, D, id, upd) ==
  IF id \notin DOMAIN D THEN Reg(H, D)
  ELSE Reg([H EXCEPT ![D[id]] = [f \in DOMAIN @ |-> IF f \in DOMAIN upd THEN upd[f] ELSE @[f]]], D)

\* a remove that empties the Map
RegRemoveAll(H, D, id) == Reg(H, Drop(D, DOMAIN D))

\* a remove that deletes nothing
RegRemoveNothing(H, D, id) == Reg(H, D)

\* Registry.remove: this.data.delete(id)
RegRemove(H, D, id) == Reg(H, Drop(D, {id}))

\* the records the registry holds
Records(H, D) == {H[D[id]] : id \in DOMAIN D}

\* Registry.getUsedPorts, registry-only variant
getUsedPorts(H, D) == {r.port : r \in Records(H, D)}

\* a getUsedPorts that never looks at the runtime
getUsedPortsUnlisted(H, D, U, listOk) == getUsedPorts(H, D)

\* Registry.getUsedPorts, runtime-aware variant: also the proxyfarm.port
\* label of every listed unit; registry ports alone when listing throws
getUsedPortsRuntime(H, D, U, listOk) ==
  getUsedPorts(H, D) \cup (IF listOk THEN {u.port : u \in U} ELSE {})

\* a scan that hands out the highest free port instead of the lowest
allocateFromTop(port, usedPorts, exclude) ==
  LET free == (config.portRangeStart..config.portRangeEnd) \ (usedPorts \cup exclude)
  IN IF free = {} THEN None ELSE CHOOSE p \in free : \A q \in free : q <= p

\* Registry.allocatePort: scan the range upwards for the first port that
\* is neither used nor excluded; None stands for the thrown
\* 'No free ports available in configured range' (PortExhausted)
RECURSIVE allocateScan(_, _, _)
allocateScan(port, usedPorts, exclude) ==
  IF port > config.portRangeEnd THEN None
  ELSE IF port \notin usedPorts /\ port \notin exclude THEN port
  ELSE allocateScan(port + 1, usedPorts, exclude)

\* allocatePort that forgets the exclusion set
allocatePortNoExclude(usedPorts, exclude) == allocateScan(config.portRangeStart, usedPorts, {})

allocatePort(usedPorts, exclude) == allocateScan(config.portRangeStart, usedPorts, exclude)

(***************************************************************************)
(* Async operations in flight                                              *)
(***************************************************************************)
Client(c) == <<"client", c>>
Cycle(k) == <<"cycle", k>>
Maint(c) == <<"maint", c>>    \* the probes and rotates of client c's healProxies
Bulk(c) == <<"bulk", c>>      \* the probes of client c's bulkHealthCheck
Adding(c) == <<"add", c>>     \* the createProxy calls of client c's pf add / pf up

\* owner: the request or control-loop cycle awaiting the operation
\* op/pc: the function and the await it is suspended at
\* id, ref, port, nid: its locals (record id, the object get() returned,
\*   the port, the id of the replacement in the recreate path)
\* country: options.country || config.defaultCountry of a createProxy
\* r0: restarts of the record when rotateProxy was called (history)
\* stale: a rotate of the id completed while this probe was in flight (history)
\* snap: the docker.listContainers result, or what is left to do of it
\* ord: the place of the record in the list the maintenance command walks
Task(owner, op, pc, id, ref, port, nid, r0, snap) ==
  [owner |-> owner, op |-> op, pc |-> pc, id |-> id, ref |-> ref, port |-> port,
   nid |-> nid, r0 |-> r0, stale |-> FALSE, snap |-> snap, ord |-> 0, country |-> NoCountry]

Busy(T, owner) == \E t \in T : t.owner = owner

\* objects still referenced by the Map or by a suspended operation survive
GC(H, D, T) == [h \in (DOMAIN H) \cap (Range(D) \cup {t.ref : t \in T}) |-> H[h]]

UnitOf(U, cid) == CHOOSE u \in U : u.Id = cid

HasUnit(U, cid) == \E u \in U : u.Id = cid

SetState(U, cid, st) == {IF u.Id = cid THEN [u EXCEPT !.State = st] ELSE u : u \in U}

\* the runtime binds a host port to one running unit at a time
PortBusy(U, cid, port) == \E u \in U : u.Id # cid /\ u.port = port /\ u.State = "running"

\* history kept for the claims: highest restarts ever seen per id, and the
\* ids whose record a rotate cleared and no later-started probe has finished
Note(H, D, cleared) ==
  [maxR |-> [id \in Ids |-> IF id \in DOMAIN D /\ H[D[id]].restarts > hist.maxR[id]
                            THEN H[D[id]].restarts ELSE hist.maxR[id]],
   cleared |-> cleared \cap DOMAIN D,
   heals |-> hist.heals, late |-> hist.late]

\* what every step leaves behind: the registry, the document its last
\* save() wrote, the operations in flight; the history counts the
\* rotateProxy calls of the control loop that returned (up to MaxRotated)
\* and the ids update() was called with when the Map no longer held them
CommitSaved(H, D, T, cleared, document, late) ==
  /\ heap' = GC(H, D, T)
  /\ data' = D
  /\ store' = document
  /\ tasks' = T
  /\ hist' = [Note(H, D, cleared) EXCEPT
                !.late = @ \cup late,
                !.heals = Min({MaxRotated, @ + Cardinality({t \in T \ tasks : t.op = "heal" /\ t.pc = "settle"})})]

\* add and remove change the Map and save() it; a step that leaves the
\* Map and its objects alone saves nothing
Commit(H, D, T, cleared) ==
  CommitSaved(H, D, T, cleared, IF Records(H, D) # Records(heap, data) THEN Records(H, D) ELSE store, {})

\* the request of a client completes with this outcome; operations of a
\* control-loop cycle only log theirs
Reply(owner, outcome) ==
  resp' = IF owner[1] = "client" THEN [resp EXCEPT ![owner[2]] = outcome] ELSE resp

(***************************************************************************)
(* docker.ts: createProxy                                                  *)
(***************************************************************************)
\* const country = options.country || config.defaultCountry
CountryOf(given) == IF given # NoCountry THEN given ELSE config.defaultCountry

\* POST /proxies -> createProxy({}): randomUUID, allocatePort, credentials
CreateBegin(c, listOk) ==
  LET port == allocatePort(getUsedPortsRuntime(heap, data, units, listOk), {})
  IN /\ ~Busy(tasks, Client(c))
     /\ nextId <= MaxIds
     /\ port # None
     /\ config.credsOk
     /\ nextId' = nextId + 1
     /\ Commit(heap, data,
               tasks \cup {[Task(Client(c), "create", "createContainer", nextId, NoRef, port, nextId, 0, {})
                             EXCEPT !.country = CountryOf(NoCountry)]},
               hist.cleared)
     /\ started < budget /\ started' = started + 1
     /\ UNCHANGED <<units, clock, config, cyc, resp, call, budget>>

\* allocatePort throws: 'No free ports available in configured range'
CreatePortExhausted(c, listOk) ==
  /\ ~Busy(tasks, Client(c))
  /\ allocatePort(getUsedPortsRuntime(heap, data, units, listOk), {}) = None
  /\ resp' = [resp EXCEPT ![c] = "PortExhausted"]
  /\ started < budget /\ started' = started + 1
  /\ UNCHANGED <<heap, data, store, units, clock, nextId, config, tasks, cyc, call, hist, budget>>

\* 'PIA requires username and password for OpenVPN'
CreateCredentialsMissing(c, listOk) ==
  /\ ~Busy(tasks, Client(c))
  /\ allocatePort(getUsedPortsRuntime(heap, data, units, listOk), {}) # None
  /\ ~config.credsOk
  /\ resp' = [resp EXCEPT ![c] = "CredentialsMissing"]
  /\ started < budget /\ started' = started + 1
  /\ UNCHANGED <<heap, data, store, units, clock, nextId, config, tasks, cyc, call, hist, budget>>

\* await docker.createContainer(...): the unit exists, labelled with the
\* id and the port, not yet started
CreateContainerOk(t) ==
  /\ t \in tasks /\ t.pc = "createContainer"
  /\ units' = units \cup {[Unit(t.nid, t.port, "created", clock) EXCEPT !.country = t.country]}
  /\ clock' = clock + 1
  /\ Commit(heap, data, (tasks \ {t}) \cup {[t EXCEPT !.pc = "start"]}, hist.cleared)
  /\ UNCHANGED <<nextId, config, cyc, resp, call, started, budget>>

\* docker.createContainer rejects: createProxy throws, nothing was made
CreateContainerFail(t) ==
  /\ t \in tasks /\ t.pc = "createContainer"
  /\ Commit(heap, data, tasks \ {t}, hist.cleared)
  /\ Reply(t.owner, "UnitCreateFailed")
  /\ UNCHANGED <<units, clock, nextId, config, cyc, call, started, budget>>

\* a record that is born healthy
CreatedRecordHealthy(t) == ProxyRecord(t.nid, t.nid, t.port, TRUE, clock)

\* the record createProxy builds once the unit has started
CreatedRecord(t) == [ProxyRecord(t.nid, t.nid, t.port, FALSE, clock) EXCEPT !.country = t.country]

\* what follows rotateProxy's return: the caller of a heal waits the settle
\* delay, a request is answered
AfterRotate(t, T) ==
  IF t.op \in {"heal", "mend"} THEN (T \ {t}) \cup {[t EXCEPT !.pc = "settle", !.ref = NoRef]} ELSE T \ {t}

\* probes of these ids that were in flight when a rotate completed
MarkStale(T, ids) == {IF x.pc = "probe" /\ x.id \in ids THEN [x EXCEPT !.stale = TRUE] ELSE x : x \in T}

\* await container.start() succeeds; registry.add(proxy); return proxy.
\* In rotateProxy's recreate path the caller then removes the old record.
StartOk(t) ==
  LET added   == RegAdd(heap, data, CreatedRecord(t))
      retired == IF t.op = "create" THEN added ELSE RegRemove(added.heap, added.data, t.id)
      T1      == IF t.op = "create" THEN tasks \ {t}
                 ELSE MarkStale(AfterRotate(t, tasks), {t.nid})
  IN /\ t \in tasks /\ t.pc = "start"
     /\ HasUnit(units, t.nid)
     /\ UnitOf(units, t.nid).State # "running"
     /\ ~PortBusy(units, t.nid, t.port)
     /\ units' = SetState(units, t.nid, "running")
     /\ clock' = clock + 1
     /\ Commit(retired.heap, retired.data, T1,
               IF t.op = "create" THEN hist.cleared \ {t.nid} ELSE hist.cleared \cup {t.nid})
     /\ Reply(t.owner, IF t.op = "create" THEN "created" ELSE "recreated")
     /\ UNCHANGED <<nextId, config, cyc, call, started, budget>>

\* container.start() fails (port taken, unit gone or already started,
\* device missing, ...):
\* createProxy throws; the created unit stays behind
StartFail(t) ==
  /\ t \in tasks /\ t.pc = "start"
  /\ Commit(heap, data, tasks \ {t}, hist.cleared)
  /\ Reply(t.owner, "UnitCreateFailed")
  /\ UNCHANGED <<units, clock, nextId, config, cyc, call, started, budget>>

(***************************************************************************)
(* docker.ts: removeProxy                                                  *)
(***************************************************************************)
\* DELETE /proxies/:id on a known id: registry.get, then container.stop()
RemoveBegin(c, id) ==
  /\ ~Busy(tasks, Client(c))
  /\ id \in DOMAIN data
  /\ Commit(heap, data,
            tasks \cup {Task(Client(c), "remove", "stop", id, RegGet(data, id), None, None, 0, {})},
            hist.cleared)
  /\ started < budget /\ started' = started + 1
  /\ UNCHANGED <<units, clock, nextId, config, cyc, resp, call, budget>>

\* 'Proxy ${id} not found'
RemoveNotFound(c, id) ==
  /\ ~Busy(tasks, Client(c))
  /\ id \notin DOMAIN data
  /\ resp' = [resp EXCEPT ![c] = "NotFound"]
  /\ started < budget /\ started' = started + 1
  /\ UNCHANGED <<heap, data, store, units, clock, nextId, config, tasks, cyc, call, hist, budget>>

\* await container.stop() on a running unit
RemoveStopOk(t) ==
  /\ t \in tasks /\ t.op = "remove" /\ t.pc = "stop"
  /\ HasUnit(units, heap[t.ref].containerId)
  /\ UnitOf(units, heap[t.ref].containerId).State = "running"
  /\ units' = SetState(units, heap[t.ref].containerId, "exited")
  /\ Commit(heap, data, (tasks \ {t}) \cup {[t EXCEPT !.pc = "rm"]}, hist.cleared)
  /\ UNCHANGED <<clock, nextId, config, cyc, resp, call, started, budget>>

\* await container.remove() on the stopped unit; registry.remove(id)
RemoveRmOk(t) ==
  LET gone == RegRemove(heap, data, t.id)
  IN /\ t \in tasks /\ t.op = "remove" /\ t.pc = "rm"
     /\ HasUnit(units, heap[t.ref].containerId)
     /\ UnitOf(units, heap[t.ref].containerId).State # "running"
     /\ units' = {u \in units : u.Id # heap[t.ref].containerId}
     /\ Commit(gone.heap, gone.data, tasks \ {t}, hist.cleared)
     /\ Reply(t.owner, "removed")
     /\ UNCHANGED <<clock, nextId, config, cyc, call, started, budget>>

\* stop or remove answers 404: the unit is already gone; registry.remove(id)
RemoveGone(t) ==
  LET gone == RegRemove(heap, data, t.id)
  IN /\ t \in tasks /\ t.op = "remove"
     /\ ~HasUnit(units, heap[t.ref].containerId)
     /\ Commit(gone.heap, gone.data, tasks \ {t}, hist.cleared)
     /\ Reply(t.owner, "removed")
     /\ UNCHANGED <<units, clock, nextId, config, cyc, call, started, budget>>

\* stop or remove fails with another status (304 already stopped, 409
\* running again, 500): removeProxy rethrows and the record stays
RemoveFail(t) ==
  /\ t \in tasks /\ t.op = "remove"
  /\ HasUnit(units, heap[t.ref].containerId)
  /\ Commit(heap, data, tasks \ {t}, hist.cleared)
  /\ Reply(t.owner, "Error")
  /\ UNCHANGED <<units, clock, nextId, config, cyc, call, started, budget>>

(***************************************************************************)
(* docker.ts: rotateProxy                                                  *)
(***************************************************************************)
\* POST /proxies/:id/rotate on a known id: registry.get, container.restart()
RotateBegin(c, id) ==
  /\ ~Busy(tasks, Client(c))
  /\ id \in DOMAIN data
  /\ heap[data[id]].restarts < MaxRestarts
  /\ Commit(heap, data,
            tasks \cup {Task(Client(c), "rotate", "restart", id, RegGet(data, id),
                             heap[data[id]].port, None, heap[data[id]].restarts, {})},
            hist.cleared)
  /\ started < budget /\ started' = started + 1
  /\ UNCHANGED <<units, clock, nextId, config, cyc, resp, call, budget>>

\* 'Proxy ${id} not found'
RotateNotFound(c, id) ==
  /\ ~Busy(tasks, Client(c))
  /\ id \notin DOMAIN data
  /\ resp' = [resp EXCEPT ![c] = "NotFound"]
  /\ started < budget /\ started' = started + 1
  /\ UNCHANGED <<heap, data, store, units, clock, nextId, config, tasks, cyc, call, hist, budget>>

\* registry.update(id, {restarts: proxy.restarts + 1, exitIp: undefined,
\* healthy: false}); then proxy.restarts++, proxy.exitIp = undefined,
\* proxy.healthy = false on the object get() returned
RotateUpdate(H, D, id, ref) ==
  LET upd == RegUpdate(H, D, id, [restarts |-> H[ref].restarts + 1, exitIp |-> NoIp, healthy |-> FALSE])
  IN Reg([upd.heap EXCEPT ![ref] = [@ EXCEPT !.restarts = @ + 1, !.exitIp = NoIp, !.healthy = FALSE]],
         upd.data)

\* update() of a known id ends with save(): the document holds the records
\* as that update left them; update() of an unknown id returns before it
Saved(upd, id) ==
  IF id \in DOMAIN data THEN Records(upd.heap, upd.data) ELSE store

\* await container.restart() succeeds; the document is written by the
\* update, before the fields of the object are set once more
RotateRestartOk(t) ==
  LET cid == heap[t.ref].containerId
      upd == RegUpdate(heap, data, t.id, [restarts |-> heap[t.ref].restarts + 1, exitIp |-> NoIp, healthy |-> FALSE])
      rot == RotateUpdate(heap, data, t.id, t.ref)
  IN /\ t \in tasks /\ t.pc = "restart"
     /\ HasUnit(units, cid)
     /\ ~PortBusy(units, cid, UnitOf(units, cid).port)
     /\ units' = SetState(units, cid, "running")
     /\ CommitSaved(rot.heap, rot.data, MarkStale(AfterRotate(t, tasks), {t.id}),
                    hist.cleared \cup {t.id}, Saved(upd, t.id), {t.id} \ DOMAIN data)
     /\ Reply(t.owner, "rotated")
     /\ UNCHANGED <<clock, nextId, config, cyc, call, started, budget>>

\* container.restart() answers 404: createProxy({country, city, notes,
\* port: proxy.port}) up to its docker.createContainer
RotateRecreate(t) ==
  /\ t \in tasks /\ t.pc = "restart"
  /\ ~HasUnit(units, heap[t.ref].containerId)
  /\ nextId <= MaxIds
  /\ config.credsOk
  /\ nextId' = nextId + 1
  /\ Commit(heap, data,
            (tasks \ {t}) \cup {[t EXCEPT !.pc = "createContainer", !.nid = nextId, !.port = heap[t.ref].port,
                                            !.country = CountryOf(heap[t.ref].country)]},
            hist.cleared)
  /\ UNCHANGED <<units, clock, config, cyc, resp, call, started, budget>>

\* container.restart() answers 404 and createProxy throws 'PIA requires
\* username and password for OpenVPN': rotateProxy fails, the record stays
RotateCredentialsMissing(t) ==
  /\ t \in tasks /\ t.pc = "restart"
  /\ ~HasUnit(units, heap[t.ref].containerId)
  /\ ~config.credsOk
  /\ Commit(heap, data, tasks \ {t}, hist.cleared)
  /\ Reply(t.owner, "CredentialsMissing")
  /\ UNCHANGED <<units, clock, nextId, config, cyc, call, started, budget>>

\* container.restart() fails with another status: rotateProxy rethrows
RotateFail(t) ==
  /\ t \in tasks /\ t.pc = "restart"
  /\ HasUnit(units, heap[t.ref].containerId)
  /\ Commit(heap, data, tasks \ {t}, hist.cleared)
  /\ Reply(t.owner, "Error")
  /\ UNCHANGED <<units, clock, nextId, config, cyc, call, started, budget>>

(***************************************************************************)
(* health.ts: checkProxyHealth                                             *)
(***************************************************************************)
\* GET /proxies/:id/health on a known id: registry.get, then the probe
\* through the proxy's port
ProbeBegin(c, id) ==
  /\ ~Busy(tasks, Client(c))
  /\ id \in DOMAIN data
  /\ Commit(heap, data,
            tasks \cup {Task(Client(c), "check", "probe", id, RegGet(data, id),
                             heap[data[id]].port, None, 0, {})},
            hist.cleared)
  /\ started < budget /\ started' = started + 1
  /\ UNCHANGED <<units, clock, nextId, config, cyc, resp, call, budget>>

\* { proxyId, healthy: false, error: 'Proxy not found' }
ProbeNotFound(c, id) ==
  /\ ~Busy(tasks, Client(c))
  /\ id \notin DOMAIN data
  /\ resp' = [resp EXCEPT ![c] = "ProxyNotFound"]
  /\ started < budget /\ started' = started + 1
  /\ UNCHANGED <<heap, data, store, units, clock, nextId, config, tasks, cyc, call, hist, budget>>

\* a result of healthCheckAll: the cycle collects the unhealthy ones
Collect(t, healthy) ==
  cyc' = IF t.owner[1] = "cycle" /\ t.op = "check" /\ ~healthy
         THEN [cyc EXCEPT ![t.owner[2]].bad = @ \cup {t.id}] ELSE cyc

\* types: HealthCheckResult
HealthCheckResult(proxyId, healthy, exitIp, error) ==
  [proxyId |-> proxyId, healthy |-> healthy, exitIp |-> exitIp, error |-> error]

\* Promise.all keeps the result of a bulkHealthCheck probe at the place of
\* its id in proxyIds
Gathered(t, result) ==
  IF t.op = "bulk" THEN [call EXCEPT !.results = Put(@, t.ord, result)]
  ELSE IF call.kind = "probe" THEN [call EXCEPT !.last = [stages |-> t.snap, result |-> result]]
  ELSE call

\* testProxyAndGetIp, or else fetchExitIp, yields a well-formed address:
\* registry.update(proxyId, {healthy: true, exitIp}).  A scenario that
\* does not follow the awaits of a probe keeps it at "probe" until here.
ProbeOk(t, ip) ==
  LET upd == RegUpdate(heap, data, t.id, [healthy |-> TRUE, exitIp |-> ip])
  IN /\ t \in tasks /\ t.pc \in {"probe", "request", "sidecar"}
     /\ \E u \in units : u.State = "running" /\ (u.port = t.port \/ u.Id = heap[t.ref].containerId)
     /\ CommitSaved(upd.heap, upd.data, tasks \ {t},
                    IF t.stale THEN hist.cleared ELSE hist.cleared \ {t.id}, Saved(upd, t.id), {t.id} \ DOMAIN data)
     /\ Reply(t.owner, "healthy")
     /\ Collect(t, TRUE)
     /\ call' = Gathered(t, HealthCheckResult(t.id, TRUE, ip, "none"))
     /\ UNCHANGED <<units, clock, nextId, config, started, budget>>

\* neither probe yields an address (or one throws):
\* registry.update(proxyId, {healthy: false}); a result of healProxies'
\* bulkHealthCheck puts the record on its list of unhealthy proxies
ProbeFail(t) ==
  LET upd == RegUpdate(heap, data, t.id, [healthy |-> FALSE])
  IN /\ t \in tasks /\ t.pc \in {"probe", "sidecar", "handshake"}
     /\ CommitSaved(upd.heap, upd.data,
                    (tasks \ {t}) \cup (IF t.op = "triage" THEN {[t EXCEPT !.op = "mend", !.pc = "queued"]} ELSE {}),
                    IF t.stale THEN hist.cleared ELSE hist.cleared \ {t.id}, Saved(upd, t.id), {t.id} \ DOMAIN data)
     /\ Reply(t.owner, "unhealthy")
     /\ Collect(t, FALSE)
     /\ call' = Gathered(t, HealthCheckResult(t.id, FALSE, NoIp, "Proxy not responding"))
     /\ UNCHANGED <<units, clock, nextId, config, started, budget>>

\* a checkProxyHealth that starts with the auxiliary probe
StagesAuxiliaryFirst ==
  [fallback  |-> {<<"probe", "sidecar">>, <<"sidecar", "dial">>, <<"dial", "request">>},
   handshake |-> {<<"probe", "sidecar">>, <<"sidecar", "handshake">>}]

\* the awaits of checkProxyHealth between registry.get and registry.update.
\* "fallback" (testProxyAndGetIp, else fetchExitIp): SocksClient.
\* createConnection settles within its timeout ("dial"), the request sent
\* over its socket ends, fails or stays unanswered ("request"), and
\* fetchExitIp's sidecar ends or its timer of 15 s fires ("sidecar").
\* "handshake" (the first checkProxyHealth of src/src/health.ts): the SOCKS5
\* handshake, then fetchExitIp.
Stages ==
  [fallback  |-> {<<"probe", "dial">>, <<"dial", "request">>, <<"dial", "sidecar">>, <<"request", "sidecar">>},
   handshake |-> {<<"probe", "handshake">>, <<"handshake", "sidecar">>}]

\* a probe moves on to its next await; the stages it went through are kept
ProbeStage(t, to) ==
  /\ t \in tasks /\ call.kind = "probe"
  /\ <<t.pc, to>> \in Stages[call.variant]
  /\ (to = "request" \/ t.pc = "handshake") => \E u \in units : u.State = "running" /\ u.port = t.port
  /\ Commit(heap, data, (tasks \ {t}) \cup {[t EXCEPT !.pc = to, !.snap = @ \cup {to}]}, hist.cleared)
  /\ UNCHANGED <<units, clock, nextId, config, cyc, resp, call, started, budget>>

(***************************************************************************)
(* health.ts: bulkHealthCheck                                              *)
(***************************************************************************)
\* a result map that leaves out the unhealthy results
resultMapHealthyOnly(results) ==
  [id \in {results[i].proxyId : i \in {j \in DOMAIN results : results[j].healthy}}
     |-> results[CHOOSE i \in DOMAIN results :
                   /\ results[i].proxyId = id
                   /\ \A j \in DOMAIN results : results[j].proxyId = id => j <= i]]

\* for (const result of results) resultMap.set(result.proxyId, result): the
\* last result of a proxyId stays
resultMap(results) ==
  [id \in {results[i].proxyId : i \in DOMAIN results}
     |-> results[CHOOSE i \in DOMAIN results :
                   /\ results[i].proxyId = id
                   /\ \A j \in DOMAIN results : results[j].proxyId = id => j <= i]]

\* bulkHealthCheck(proxyIds): checkProxyHealth starts for every id; an
\* unknown id has its result at once, a known one awaits its probe
BulkBegin(c, proxyIds) ==
  LET known   == {i \in 1..Len(proxyIds) : proxyIds[i] \in DOMAIN data}
      unknown == (1..Len(proxyIds)) \ known
  IN /\ ~Busy(tasks, Client(c))
     /\ call.kind = "bulk"
     /\ call' = [call EXCEPT !.ids = proxyIds,
                             !.results = [i \in unknown |->
                                            HealthCheckResult(proxyIds[i], FALSE, NoIp, "Proxy not found")]]
     /\ Commit(heap, data,
               tasks \cup {Task(Client(c), "bulkHealthCheck", "all", None, NoRef, None, None, 0, {})}
                     \cup {[Task(Bulk(c), "bulk", "probe", proxyIds[i], RegGet(data, proxyIds[i]),
                                  heap[data[proxyIds[i]]].port, None, 0, {}) EXCEPT !.ord = i] : i \in known},
               hist.cleared)
     /\ started < budget /\ started' = started + 1
     /\ UNCHANGED <<units, clock, nextId, config, cyc, resp, budget>>

\* Promise.all has resolved: the results go into the map that is returned
BulkDone(m) ==
  /\ m \in tasks /\ m.op = "bulkHealthCheck"
  /\ ~Busy(tasks, Bulk(m.owner[2]))
  /\ call' = [call EXCEPT !.map = resultMap(call.results)]
  /\ Commit(heap, data, tasks \ {m}, hist.cleared)
  /\ Reply(m.owner, "checked")
  /\ UNCHANGED <<units, clock, nextId, config, cyc, started, budget>>

(***************************************************************************)
(* docker.ts: reconcileContainers                                          *)
(***************************************************************************)
\* a synthesized record that takes a new UUID instead of the unit's
\* proxyfarm.id label
SynthesizedUnlabelled(u) ==
  [ProxyRecord(u.Id + MaxIds, u.Id, u.port, u.State = "running", u.Created) EXCEPT !.country = u.country]

\* a synthesized record that is healthy whatever the state of the unit
SynthesizedAsRunning(u) ==
  [ProxyRecord(u.Id, u.Id, u.port, TRUE, u.Created) EXCEPT !.country = u.country]

\* a unit's container id and its proxyfarm.id label are drawn together at
\* createProxy, one of each per unit: Id stands for both
Synthesized(u) ==
  [ProxyRecord(u.Id, u.Id, u.port, u.State = "running", u.Created) EXCEPT !.country = u.country]

RECURSIVE AddAll(_, _, _)
AddAll(H, D, recs) ==
  IF recs = {} THEN Reg(H, D)
  ELSE LET r == CHOOSE x \in recs : TRUE
           a == RegAdd(H, D, r)
       IN AddAll(a.heap, a.data, recs \ {r})

\* a reconciliation without its second loop: it deletes no record
ReconciledAddOnly(H, D, containers) ==
  AddAll(H, D, {Synthesized(u) : u \in {x \in containers : x.Id \notin {p.containerId : p \in Records(H, D)}}})

\* the two loops of reconcileContainers over the listed containers and
\* over registryProxies = registry.list() taken before them
Reconciled(H, D, containers) ==
  LET registryProxies == Records(H, D)
      byContainerId   == {p.containerId : p \in registryProxies}
      added           == AddAll(H, D, {Synthesized(u) : u \in {x \in containers : x.Id \notin byContainerId}})
      missing         == {p.id : p \in {x \in registryProxies : ~\E u \in containers : u.Id = x.containerId}}
  IN Reg(added.heap, Drop(added.data, missing))

\* the maintenance scenario keeps what each completed reconciliation run
\* left behind
Logged(op, H, D, U) ==
  IF call.kind = "maintain"
  THEN [call EXCEPT !.ops = Append(@, op), !.after = Append(@, [records |-> Records(H, D), units |-> U])]
  ELSE call

\* pf ls / service start: await docker.listContainers(...)
ReconcileBegin(c) ==
  /\ ~Busy(tasks, Client(c))
  /\ Commit(heap, data,
            tasks \cup {Task(Client(c), "reconcile", "listed", None, NoRef, None, None, 0, units)},
            hist.cleared)
  /\ started < budget /\ started' = started + 1
  /\ UNCHANGED <<units, clock, nextId, config, cyc, resp, call, budget>>

\* the listing arrives: synthesize, then delete
ReconcileApply(t) ==
  LET rec == Reconciled(heap, data, t.snap)
  IN /\ t \in tasks /\ t.op = "reconcile" /\ t.pc = "listed"
     /\ Commit(rec.heap, rec.data, tasks \ {t}, hist.cleared)
     /\ Reply(t.owner, "reconciled")
     /\ call' = Logged("reconcile", rec.heap, rec.data, units)
     /\ UNCHANGED <<units, clock, nextId, config, cyc, started, budget>>

(***************************************************************************)
(* The runtime, acted on by someone else                                   *)
(***************************************************************************)
\* docker rm -f of a farm unit from outside the control plane
ExternalRemove(u) ==
  /\ u \in units
  /\ units' = units \ {u}
  /\ started < budget /\ started' = started + 1
  /\ UNCHANGED <<heap, data, store, clock, nextId, config, tasks, cyc, resp, call, hist, budget>>

(***************************************************************************)
(* health.ts: startHealthCheck / runCheck, healthCheckAll,                 *)
(* autoHealUnhealthyProxy                                                  *)
(***************************************************************************)
\* Registry.list(): the ids, newest createdAt first
RECURSIVE ListIds(_, _)
ListIds(H, D) ==
  IF DOMAIN D = {} THEN <<>>
  ELSE LET newest == CHOOSE id \in DOMAIN D :
                       \A o \in DOMAIN D : \/ H[D[o]].createdAt < H[D[id]].createdAt
                                          \/ (H[D[o]].createdAt = H[D[id]].createdAt /\ o >= id)
       IN <<newest>> \o ListIds(H, Drop(D, {newest}))

SeqRange(q) == {q[i] : i \in 1..Len(q)}

IdleCycle == [pc |-> "idle", list |-> <<>>, bad |-> {}]

\* setInterval fires (or the first runCheck): healthCheckAll lists the
\* registry and starts checkProxyHealth for every record in parallel
CycleBegin(k) ==
  /\ cyc[k].pc = "idle"
  /\ ~Busy(tasks, Cycle(k))
  /\ DOMAIN data # {}
  /\ cyc' = [cyc EXCEPT ![k] = [pc |-> "probing", list |-> ListIds(heap, data), bad |-> {}]]
  /\ Commit(heap, data,
            tasks \cup {Task(Cycle(k), "check", "probe", id, RegGet(data, id), heap[data[id]].port, None, 0, {})
                        : id \in DOMAIN data},
            hist.cleared)
  /\ UNCHANGED <<units, clock, nextId, config, resp, call, budget>>

\* one of the runs a scenario looks at
CycleStart(k) ==
  /\ CycleBegin(k)
  /\ started < budget /\ started' = started + 1

\* the interval goes on firing for as long as the service runs
CycleTick(k) ==
  /\ CycleBegin(k)
  /\ UNCHANGED started

\* ShouldHeal with the ceiling compared off by one (restarts > 3)
ShouldHealOffByOne(H, D, id) ==
  /\ id \in DOMAIN D
  /\ ~H[D[id]].healthy
  /\ ~(H[D[id]].restarts > RESTART_CEILING)

\* autoHealUnhealthyProxy up to its first I/O: nothing to heal for an
\* absent or healthy record, skip at the ceiling, else rotateProxy(proxyId)
ShouldHeal(H, D, id) ==
  /\ id \in DOMAIN D
  /\ ~H[D[id]].healthy
  /\ ~(H[D[id]].restarts >= RESTART_CEILING)

\* the unhealthy results in list order; batches of MAX_CONCURRENT_HEALS
Unhealthy(q, bad) == SelectSeq(q, LAMBDA id : id \in bad)

Batch(q) == SubSeq(q, 1, IF Len(q) < MAX_CONCURRENT_HEALS THEN Len(q) ELSE MAX_CONCURRENT_HEALS)

Rest(q) == SubSeq(q, Len(Batch(q)) + 1, Len(q))

\* Promise.all of the probes, or of the previous batch, has resolved: the
\* next batch of autoHealUnhealthyProxy calls starts, or the cycle ends
CycleAdvance(k) ==
  LET queue == IF cyc[k].pc = "probing" THEN Unhealthy(cyc[k].list, cyc[k].bad) ELSE cyc[k].list
      batch == SeqRange(Batch(queue))
  IN /\ cyc[k].pc \in {"probing", "healing"}
     /\ ~Busy(tasks, Cycle(k))
     /\ cyc' = [cyc EXCEPT ![k] = IF queue = <<>> THEN IdleCycle
                                  ELSE [pc |-> "healing", list |-> Rest(queue), bad |-> {}]]
     /\ Commit(heap, data,
               tasks \cup {Task(Cycle(k), "heal", "restart", id, RegGet(data, id), heap[data[id]].port, None,
                                heap[data[id]].restarts, {})
                           : id \in {x \in batch : ShouldHeal(heap, data, x)}},
               hist.cleared)
     /\ UNCHANGED <<units, clock, nextId, config, resp, call, started, budget>>

\* the 5 s settle delay after rotateProxy has passed: checkProxyHealth
HealSettle(t) ==
  /\ t \in tasks /\ t.op \in {"heal", "mend"} /\ t.pc = "settle"
  /\ Commit(heap, data,
            IF t.id \in DOMAIN data
            THEN (tasks \ {t}) \cup {[t EXCEPT !.pc = "probe", !.ref = RegGet(data, t.id), !.port = heap[data[t.id]].port]}
            ELSE tasks \ {t},
            hist.cleared)
  /\ UNCHANGED <<units, clock, nextId, config, cyc, resp, call, started, budget>>

(***************************************************************************)
(* health.ts: healProxies (pf heal)                                        *)
(***************************************************************************)
\* Step 2: registry.remove for every record whose container is not listed
PruneMissing(H, D, containers) ==
  Reg(H, Drop(D, {id \in DOMAIN D : ~\E u \in containers : u.Id = H[D[id]].containerId}))

\* the oldest by createdAt of these records (no two timestamps are equal)
Oldest(H, D, ids) ==
  CHOOSE id \in ids : \A o \in ids : \/ H[D[id]].createdAt < H[D[o]].createdAt
                                    \/ (H[D[id]].createdAt = H[D[o]].createdAt /\ id <= o)

\* a choice that keeps the oldest record whether healthy or not
KeepOldest(H, D, ids) ==
  CHOOSE id \in ids : \A o \in ids : \/ H[D[id]].createdAt < H[D[o]].createdAt
                                    \/ (H[D[id]].createdAt = H[D[o]].createdAt /\ id <= o)

\* proxyList.find((p) => p.healthy) || proxyList[0], proxyList sorted by
\* createdAt ascending
Keep(H, D, ids) ==
  IF {id \in ids : H[D[id]].healthy} # {} THEN Oldest(H, D, {id \in ids : H[D[id]].healthy})
  ELSE Oldest(H, D, ids)

\* a step 3 that removes no record
DedupedNone(H, D) == Reg(H, D)

\* Step 3: on every port held by several records, registry.remove for all
\* of them but the one to keep
Deduped(H, D) ==
  Reg(H, Drop(D, {id \in DOMAIN D :
                    Keep(H, D, {o \in DOMAIN D : H[D[o]].port = H[D[id]].port}) # id}))

\* a step 4 that takes every listed unit for an orphan
OrphansAll(H, D, containers) == containers

\* Step 4: the listed units no record references
Orphans(H, D, containers) ==
  {u \in containers : u.Id \notin {r.containerId : r \in Records(H, D)}}

\* the orphan the loop over allContainers turns to next
NextOrphan(S) == CHOOSE u \in S : \A o \in S : o.Created <= u.Created

\* place of a record in registry.list(), newest first
Rank(H, D, id) ==
  1 + Cardinality({o \in DOMAIN D : \/ H[D[o]].createdAt > H[D[id]].createdAt
                                    \/ (H[D[o]].createdAt = H[D[id]].createdAt /\ o < id)})

\* Step 4 has nothing left to do: step 5 lists the registry and starts
\* bulkHealthCheck, a checkProxyHealth for every record in parallel
HealthPass(m, H, D, T) ==
  (T \ {m}) \cup {[m EXCEPT !.pc = "health", !.snap = {}]}
      \cup {[Task(Maint(m.owner[2]), "triage", "probe", id, RegGet(D, id), H[D[id]].port, None, 0, {})
               EXCEPT !.ord = Rank(H, D, id)] : id \in DOMAIN D}

\* the orphan loop goes on with the units in rest, or is through
AfterOrphan(m, H, D, T, rest) ==
  IF rest = {} THEN HealthPass(m, H, D, T)
  ELSE (T \ {m}) \cup {[m EXCEPT !.pc = "orphans", !.snap = rest]}

\* pf heal: Step 1, reconcileContainers(), awaits its listing
HealBegin(c) ==
  /\ ~Busy(tasks, Client(c))
  /\ Commit(heap, data,
            tasks \cup {Task(Client(c), "maintain", "listed", None, NoRef, None, None, 0, units)},
            hist.cleared)
  /\ started < budget /\ started' = started + 1
  /\ UNCHANGED <<units, clock, nextId, config, cyc, resp, call, budget>>

\* Step 1 applies its listing; then await docker.listContainers again
HealReconciled(t) ==
  LET rec == Reconciled(heap, data, t.snap)
  IN /\ t \in tasks /\ t.op = "maintain" /\ t.pc = "listed"
     /\ Commit(rec.heap, rec.data, (tasks \ {t}) \cup {[t EXCEPT !.pc = "relisted", !.snap = units]},
               hist.cleared)
     /\ UNCHANGED <<units, clock, nextId, config, cyc, resp, call, started, budget>>

\* the second listing arrives: Steps 2 and 3 on the registry, then Step 4
\* up to its first container.stop()
HealPruned(t) ==
  LET pruned  == PruneMissing(heap, data, t.snap)
      deduped == Deduped(pruned.heap, pruned.data)
      orphans == Orphans(deduped.heap, deduped.data, t.snap)
  IN /\ t \in tasks /\ t.op = "maintain" /\ t.pc = "relisted"
     /\ Commit(deduped.heap, deduped.data,
               AfterOrphan(t, deduped.heap, deduped.data, tasks, orphans), hist.cleared)
     /\ call' = IF orphans = {} THEN Logged("heal", deduped.heap, deduped.data, units) ELSE call
     /\ UNCHANGED <<units, clock, nextId, config, cyc, resp, started, budget>>

\* await container.stop() of the next orphan: a running unit stops, any
\* error (not running, gone, daemon failure) is ignored
HealOrphanStop(t, ok) ==
  LET u == NextOrphan(t.snap)
  IN /\ t \in tasks /\ t.op = "maintain" /\ t.pc = "orphans"
     /\ units' = IF ok /\ HasUnit(units, u.Id) /\ UnitOf(units, u.Id).State = "running"
                 THEN SetState(units, u.Id, "exited") ELSE units
     /\ Commit(heap, data, (tasks \ {t}) \cup {[t EXCEPT !.pc = "orphanRemove"]}, hist.cleared)
     /\ UNCHANGED <<clock, nextId, config, cyc, resp, call, started, budget>>

\* await container.remove() succeeds on the stopped orphan
HealOrphanRemoved(t) ==
  LET u == NextOrphan(t.snap)
  IN /\ t \in tasks /\ t.op = "maintain" /\ t.pc = "orphanRemove"
     /\ HasUnit(units, u.Id)
     /\ UnitOf(units, u.Id).State # "running"
     /\ units' = {x \in units : x.Id # u.Id}
     /\ Commit(heap, data, AfterOrphan(t, heap, data, tasks, t.snap \ {u}), hist.cleared)
     /\ call' = IF t.snap = {u} THEN Logged("heal", heap, data, units') ELSE call
     /\ UNCHANGED <<clock, nextId, config, cyc, resp, started, budget>>

\* container.remove() throws (unit gone, still running, daemon failure):
\* 'Failed to remove', the loop goes on
HealOrphanKept(t) ==
  LET u == NextOrphan(t.snap)
      noted == IF call.kind = "maintain" THEN [call EXCEPT !.failed = @ \cup {Len(call.after) + 1}] ELSE call
  IN /\ t \in tasks /\ t.op = "maintain" /\ t.pc = "orphanRemove"
     /\ Commit(heap, data, AfterOrphan(t, heap, data, tasks, t.snap \ {u}), hist.cleared)
     /\ call' = IF t.snap = {u}
                THEN [Logged("heal", heap, data, units) EXCEPT !.failed = noted.failed]
                ELSE noted
     /\ UNCHANGED <<units, clock, nextId, config, cyc, resp, started, budget>>

\* a ceiling test that never skips
AtCeilingNever(H, ref) == FALSE

\* if (proxy.restarts >= 3) on the object listed before the health checks:
\* 'Skipped: failed N times'
AtCeiling(H, ref) == H[ref].restarts >= RESTART_CEILING

\* Step 5, one turn of the loop over the unhealthy proxies once
\* bulkHealthCheck has resolved and the previous turn is over: skip a proxy
\* at the ceiling, rotateProxy the next one (which throws for an id no
\* longer in the registry), or finish: 'Maintenance complete'
MendNext(m) ==
  LET mine   == {t \in tasks : t.owner = Maint(m.owner[2])}
      queued == {t \in mine : t.pc = "queued"}
      t      == CHOOSE x \in queued : \A o \in queued : x.ord <= o.ord
  IN /\ m \in tasks /\ m.op = "maintain" /\ m.pc = "health"
     /\ mine = queued
     /\ IF queued = {}
        THEN /\ Commit(heap, data, tasks \ {m}, hist.cleared)
             /\ Reply(m.owner, "maintained")
        ELSE /\ Commit(heap, data,
                       IF AtCeiling(heap, t.ref) \/ t.id \notin DOMAIN data
                       THEN tasks \ {t}
                       ELSE (tasks \ {t}) \cup {[t EXCEPT !.pc = "restart", !.ref = RegGet(data, t.id),
                                                          !.port = heap[data[t.id]].port,
                                                          !.r0 = heap[data[t.id]].restarts]},
                       hist.cleared)
             /\ UNCHANGED resp
     /\ UNCHANGED <<units, clock, nextId, config, cyc, call, started, budget>>

(***************************************************************************)
(* The control plane                                                       *)
(***************************************************************************)
\* the service before its first proxy, good for b requests and events
Fresh(b) ==
  /\ heap = [h \in {} |-> 0]
  /\ data = [i \in {} |-> 0]
  /\ store = Records(heap, data)
  /\ units = {}
  /\ clock = 1
  /\ nextId = 1
  /\ \E ok \in BOOLEAN : config = Config(1, ServicePorts, ok)
  /\ tasks = {}
  /\ cyc = [k \in Cycles |-> IdleCycle]
  /\ resp = [c \in Clients |-> "none"]
  /\ call = [kind |-> "none"]
  /\ hist = [maxR |-> [id \in Ids |-> 0], cleared |-> {}, heals |-> 0, late |-> {}]
  /\ started = 0
  /\ budget = b

Init == Fresh(MaxStarted)

Next ==
  \/ \E c \in Clients, listOk \in BOOLEAN : CreateBegin(c, listOk)
  \/ \E c \in Clients, listOk \in BOOLEAN : CreatePortExhausted(c, listOk)
  \/ \E c \in Clients, listOk \in BOOLEAN : CreateCredentialsMissing(c, listOk)
  \/ \E t \in tasks : CreateContainerOk(t)
  \/ \E t \in tasks : CreateContainerFail(t)
  \/ \E t \in tasks : StartOk(t)
  \/ \E t \in tasks : StartFail(t)
  \/ \E c \in Clients, id \in Ids : RemoveBegin(c, id)
  \/ \E c \in Clients, id \in Ids : RemoveNotFound(c, id)
  \/ \E t \in tasks : RemoveStopOk(t)
  \/ \E t \in tasks : RemoveRmOk(t)
  \/ \E t \in tasks : RemoveGone(t)
  \/ \E t \in tasks : RemoveFail(t)
  \/ \E c \in Clients, id \in Ids : RotateBegin(c, id)
  \/ \E c \in Clients, id \in Ids : RotateNotFound(c, id)
  \/ \E t \in tasks : RotateRestartOk(t)
  \/ \E t \in tasks : RotateRecreate(t)
  \/ \E t \in tasks : RotateFail(t)
  \/ \E c \in Clients, id \in Ids : ProbeBegin(c, id)
  \/ \E c \in Clients, id \in Ids : ProbeNotFound(c, id)
  \/ \E t \in tasks, ip \in IPs : ProbeOk(t, ip)
  \/ \E t \in tasks : ProbeFail(t)
  \/ \E c \in Clients : ReconcileBegin(c)
  \/ \E t \in tasks : ReconcileApply(t)
  \/ \E u \in units : ExternalRemove(u)
  \/ \E k \in Cycles : CycleStart(k)
  \/ \E k \in Cycles : CycleAdvance(k)
  \/ \E t \in tasks : HealSettle(t)
  \/ \E c \in Clients : HealBegin(c)
  \/ \E t \in tasks : HealReconciled(t)
  \/ \E t \in tasks : HealPruned(t)
  \/ \E t \in tasks, ok \in BOOLEAN : HealOrphanStop(t, ok)
  \/ \E t \in tasks : HealOrphanRemoved(t)
  \/ \E t \in tasks : HealOrphanKept(t)
  \/ \E m \in tasks : MendNext(m)

Spec == Init /\ [][Next]_vars

(***************************************************************************)
(* Starting states that earlier runs of the control plane leave behind     *)
(***************************************************************************)
\* Proxy id was made with port[id]; kind[id] tells what is left of it: its
\* record, its unit, both or nothing.  Records and units may share a port
\* (see PortsUnique); of the units on one port only the first one runs.
DrawnKinds == {"none", "record", "unit", "both"}

DrawnRecord(id, port, healthy) == ProxyRecord(id, id, port[id], healthy[id], 2 * id)

DrawnUnit(id, port, kind) ==
  Unit(id, port[id],
       IF \E o \in 1..(id - 1) : kind[o] \in {"unit", "both"} /\ port[o] = port[id]
       THEN "created" ELSE "running",
       2 * id - 1)

Drawn(port, kind, healthy) ==
  /\ heap = [h \in {<<id, 0>> : id \in {i \in DOMAIN kind : kind[i] \in {"record", "both"}}}
               |-> DrawnRecord(h[1], port, healthy)]
  /\ data = [id \in {i \in DOMAIN kind : kind[i] \in {"record", "both"}} |-> <<id, 0>>]
  /\ store = Records(heap, data)
  /\ units = {DrawnUnit(id, port, kind) : id \in {i \in DOMAIN kind : kind[i] \in {"unit", "both"}}}
  /\ clock = 2 * Cardinality(DOMAIN kind) + 1
  /\ nextId = Cardinality(DOMAIN kind) + 1
  /\ tasks = {}
  /\ cyc = [k \in Cycles |-> IdleCycle]
  /\ resp = [c \in Clients |-> "none"]
  /\ hist = [maxR |-> [id \in Ids |-> 0], cleared |-> {}, heals |-> 0, late |-> {}]
  /\ started = 0

(***************************************************************************)
(* registry.allocatePort(exclude) on its own                               *)
(***************************************************************************)
InitAlloc ==
  \E port \in [1..DrawnIds -> Ports], kind \in [1..DrawnIds -> DrawnKinds] :
    \E exclude \in SUBSET Ports, start \in Ports, end \in Ports :
      /\ start <= end
      /\ config = Config(start, end, TRUE)
      /\ Drawn(port, kind, [id \in 1..DrawnIds |-> FALSE])
      /\ call = [kind |-> "alloc", exclude |-> exclude, by |-> "none", listOk |-> TRUE, out |-> None,
                 before |-> {DrawnRecord(id, port, [i \in 1..DrawnIds |-> FALSE])
                             : id \in {i \in 1..DrawnIds : kind[i] \in {"record", "both"}}}]
      /\ budget = 1

\* allocatePort over the registry-only getUsedPorts
AllocateRegistryOnly ==
  /\ started < budget /\ started' = started + 1
  /\ call' = [call EXCEPT !.by = "registry",
                          !.out = allocatePort(getUsedPorts(heap, data), call.exclude)]
  /\ UNCHANGED <<heap, data, store, units, clock, nextId, config, tasks, cyc, resp, hist, budget>>

\* allocatePort over the runtime-aware getUsedPorts, whose listing may throw
AllocateRuntimeAware(listOk) ==
  /\ started < budget /\ started' = started + 1
  /\ call' = [call EXCEPT !.by = "runtime", !.listOk = listOk,
                          !.out = allocatePort(getUsedPortsRuntime(heap, data, units, listOk), call.exclude)]
  /\ UNCHANGED <<heap, data, store, units, clock, nextId, config, tasks, cyc, resp, hist, budget>>

NextAlloc ==
  \/ AllocateRegistryOnly
  \/ \E listOk \in BOOLEAN : AllocateRuntimeAware(listOk)

SpecAlloc == InitAlloc /\ [][NextAlloc]_vars

(***************************************************************************)
(* createProxy called again and again by one caller, each call completing  *)
(* before the next, from a range with FreePorts free ports                 *)
(***************************************************************************)
\* the ports of S in ascending order
RECURSIVE Ascending(_)
Ascending(S) == IF S = {} THEN <<>> ELSE <<Min(S)>> \o Ascending(S \ {Min(S)})

InitCreate ==
  \E start \in Ports, end \in Ports : \E held \in SUBSET (start..end) :
    /\ Cardinality((start..end) \ held) = FreePorts
    /\ config = Config(start, end, TRUE)
    /\ Drawn(Ascending(held), [id \in 1..Cardinality(held) |-> "both"],
             [id \in 1..Cardinality(held) |-> FALSE])
    /\ call = [kind |-> "create", free |-> Ascending((start..end) \ held), firstId |-> Cardinality(held) + 1]
    /\ budget = FreePorts + 1

NextCreate ==
  \/ \E listOk \in BOOLEAN : CreateBegin(1, listOk)
  \/ \E listOk \in BOOLEAN : CreatePortExhausted(1, listOk)
  \/ \E t \in tasks : CreateContainerOk(t)
  \/ \E t \in tasks : CreateContainerFail(t)
  \/ \E t \in tasks : StartOk(t)
  \/ \E t \in tasks : StartFail(t)

SpecCreate == InitCreate /\ [][NextCreate]_vars

(***************************************************************************)
(* Reconciliation run twice in a row (pf ls, pf ls; or pf heal, pf heal    *)
(* up to the end of its Step 4) with nobody else at work                   *)
(***************************************************************************)
InitMaintenance ==
  \E port \in [1..DrawnIds -> Ports], kind \in [1..DrawnIds -> DrawnKinds],
     healthy \in [1..DrawnIds -> BOOLEAN] :
    /\ \A id \in 1..DrawnIds : kind[id] \in {"none", "unit"} => ~healthy[id]
    /\ config = Config(1, MaxPort, TRUE)
    /\ Drawn(port, kind, healthy)
    /\ call = [kind |-> "maintain", ops |-> <<>>, after |-> <<>>, failed |-> {},
               before |-> [records |-> {DrawnRecord(id, port, healthy)
                                        : id \in {i \in 1..DrawnIds : kind[i] \in {"record", "both"}}},
                           units |-> {DrawnUnit(id, port, kind)
                                      : id \in {i \in 1..DrawnIds : kind[i] \in {"unit", "both"}}}]]
    /\ budget = 2

\* no reconciliation run is under way, and those made so far were this one
Between(op) ==
  /\ \A t \in tasks : t.op # "reconcile" /\ (t.op = "maintain" => t.pc = "health")
  /\ \A i \in 1..Len(call.ops) : call.ops[i] = op

NextMaintenance ==
  \/ \E c \in Clients : Between("reconcile") /\ ReconcileBegin(c)
  \/ \E t \in tasks : ReconcileApply(t)
  \/ \E c \in Clients : Between("heal") /\ HealBegin(c)
  \/ \E t \in tasks : HealReconciled(t)
  \/ \E t \in tasks : HealPruned(t)
  \/ \E t \in tasks, ok \in BOOLEAN : HealOrphanStop(t, ok)
  \/ \E t \in tasks : HealOrphanRemoved(t)
  \/ \E t \in tasks : HealOrphanKept(t)

SpecMaintenance == InitMaintenance /\ [][NextMaintenance]_vars

(***************************************************************************)
(* Create, rotate and list (pf add, pf rotate, pf ls) side by side         *)
(***************************************************************************)
InitDrift == Fresh(MaxDriftStarted)

NextDrift ==
  \/ \E c \in Clients, listOk \in BOOLEAN : CreateBegin(c, listOk)
  \/ \E t \in tasks : CreateContainerOk(t)
  \/ \E t \in tasks : StartOk(t)
  \/ \E c \in Clients, id \in Ids : RotateBegin(c, id)
  \/ \E t \in tasks : RotateRestartOk(t)
  \/ \E c \in Clients : ReconcileBegin(c)
  \/ \E t \in tasks : ReconcileApply(t)

SpecDrift == InitDrift /\ [][NextDrift]_vars

(***************************************************************************)
(* The control loop over a running fleet                                   *)
(***************************************************************************)
\* a proxy createProxy made earlier: its unit runs, its record is not yet
\* known healthy.  The registry file holds restarts as update() saved it,
\* so a record loaded at service start may carry an odd count.
FleetRecord(id, restarts) == [ProxyRecord(id, id, id, FALSE, 2 * id) EXCEPT !.restarts = restarts]

FleetUnit(id) == Unit(id, id, "running", 2 * id - 1)

InitFleet ==
  \E n \in 1..FleetSize : \E rs \in [1..n -> 0..1] :
    /\ heap = [h \in {<<id, 0>> : id \in 1..n} |-> FleetRecord(h[1], rs[h[1]])]
    /\ data = [id \in 1..n |-> <<id, 0>>]
    /\ store = Records(heap, data)
    /\ units = {FleetUnit(id) : id \in 1..n}
    /\ clock = 2 * n + 1
    /\ nextId = n + 1
    /\ config = Config(1, FleetSize, TRUE)
    /\ tasks = {}
    /\ cyc = [k \in Cycles |-> IdleCycle]
    /\ resp = [c \in Clients |-> "none"]
    /\ call = [kind |-> "none"]
    /\ hist = [maxR |-> [id \in Ids |-> IF id <= n THEN rs[id] ELSE 0], cleared |-> {}, heals |-> 0, late |-> {}]
    /\ started = 0
    /\ budget = MaxLoopStarted

NextLoop ==
  \/ \E k \in Cycles : CycleStart(k)
  \/ \E k \in Cycles : CycleAdvance(k)
  \/ \E t \in tasks, ip \in IPs : ProbeOk(t, ip)
  \/ \E t \in tasks : ProbeFail(t)
  \/ \E t \in tasks : RotateRestartOk(t)
  \/ \E t \in tasks : RotateRecreate(t)
  \/ \E t \in tasks : RotateFail(t)
  \/ \E t \in tasks : CreateContainerOk(t)
  \/ \E t \in tasks : CreateContainerFail(t)
  \/ \E t \in tasks : StartOk(t)
  \/ \E t \in tasks : StartFail(t)
  \/ \E t \in tasks : HealSettle(t)
  \/ \E u \in units : ExternalRemove(u)

SpecLoop == InitFleet /\ [][NextLoop]_vars

(***************************************************************************)
(* api.ts: DELETE /proxies/:id, POST /proxies/:id/rotate and               *)
(* GET /proxies/:id/health, one request at a time                          *)
(***************************************************************************)
\* message.includes(needle), on texts held word by word
includes(message, needle) ==
  \E i \in 1..(Len(message) - Len(needle) + 1) : SubSeq(message, i, i + Len(needle) - 1) = needle

\* new Error(`Proxy ${id} not found`)
ProxyNotFoundError(id) == <<"Proxy", ToString(id), "not", "found">>

\* messages of errors the runtime answers a stop, remove or restart with
RuntimeErrors ==
  {<<"(HTTP", "code", "500)", "server", "error", "-", "port", "is", "already", "allocated">>,
   <<"(HTTP", "code", "500)", "server", "error", "-", "exec:", "executable", "file", "not", "found", "in", "$PATH">>}

\* the catch of the delete and rotate handlers:
\* err.message.includes('not found') ? 404 : 500
errorStatus(message) == IF includes(message, <<"not", "found">>) THEN "404" ELSE "500"

\* DELETE on an unknown id: removeProxy throws 'Proxy <id> not found'
ApiRemoveNotFound(c, id) ==
  /\ ~Busy(tasks, Client(c))
  /\ id \notin DOMAIN data
  /\ resp' = [resp EXCEPT ![c] = errorStatus(ProxyNotFoundError(id))]
  /\ started < budget /\ started' = started + 1
  /\ UNCHANGED <<heap, data, store, units, clock, nextId, config, tasks, cyc, call, hist, budget>>

\* rotate on an unknown id: rotateProxy throws 'Proxy <id> not found'
ApiRotateNotFound(c, id) ==
  /\ ~Busy(tasks, Client(c))
  /\ id \notin DOMAIN data
  /\ resp' = [resp EXCEPT ![c] = errorStatus(ProxyNotFoundError(id))]
  /\ started < budget /\ started' = started + 1
  /\ UNCHANGED <<heap, data, store, units, clock, nextId, config, tasks, cyc, call, hist, budget>>

\* health-get on an unknown id: checkProxyHealth returns, and the handler
\* sends with status 200, { healthy: false, error: 'Proxy not found' }
ApiProbeNotFound(c, id) ==
  /\ ~Busy(tasks, Client(c))
  /\ id \notin DOMAIN data
  /\ resp' = [resp EXCEPT ![c] = "200 Proxy not found"]
  /\ started < budget /\ started' = started + 1
  /\ UNCHANGED <<heap, data, store, units, clock, nextId, config, tasks, cyc, call, hist, budget>>

\* container.stop() or container.remove() throws with a status other than
\* 404: removeProxy rethrows, the handler answers by the message
ApiRemoveFail(t, message) ==
  /\ t \in tasks /\ t.op = "remove"
  /\ HasUnit(units, heap[t.ref].containerId)
  /\ Commit(heap, data, tasks \ {t}, hist.cleared)
  /\ Reply(t.owner, errorStatus(message))
  /\ UNCHANGED <<units, clock, nextId, config, cyc, call, started, budget>>

\* container.restart() throws with a status other than 404: rotateProxy
\* rethrows, the handler answers by the message
ApiRotateFail(t, message) ==
  /\ t \in tasks /\ t.op = "rotate" /\ t.pc = "restart"
  /\ HasUnit(units, heap[t.ref].containerId)
  /\ Commit(heap, data, tasks \ {t}, hist.cleared)
  /\ Reply(t.owner, errorStatus(message))
  /\ UNCHANGED <<units, clock, nextId, config, cyc, call, started, budget>>

InitApi ==
  \E port \in [1..DrawnIds -> Ports], kind \in [1..DrawnIds -> DrawnKinds],
     healthy \in [1..DrawnIds -> BOOLEAN] :
    /\ \A id \in 1..DrawnIds : kind[id] \in {"none", "unit"} => ~healthy[id]
    /\ config = Config(1, MaxPort, TRUE)
    /\ Drawn(port, kind, healthy)
    /\ call = [kind |-> "api"]
    /\ budget = 1

NextApi ==
  \/ \E id \in Ids : RemoveBegin(1, id)
  \/ \E id \in Ids : ApiRemoveNotFound(1, id)
  \/ \E t \in tasks : RemoveStopOk(t)
  \/ \E t \in tasks : RemoveRmOk(t)
  \/ \E t \in tasks : RemoveGone(t)
  \/ \E t \in tasks, message \in RuntimeErrors : ApiRemoveFail(t, message)
  \/ \E id \in Ids : RotateBegin(1, id)
  \/ \E id \in Ids : ApiRotateNotFound(1, id)
  \/ \E t \in tasks : RotateRestartOk(t)
  \/ \E t \in tasks, message \in RuntimeErrors : ApiRotateFail(t, message)
  \/ \E id \in Ids : ProbeBegin(1, id)
  \/ \E id \in Ids : ApiProbeNotFound(1, id)
  \/ \E t \in tasks, ip \in IPs : ProbeOk(t, ip)
  \/ \E t \in tasks : ProbeFail(t)

SpecApi == InitApi /\ [][NextApi]_vars

(***************************************************************************)
(* The control loop over a fleet whose tunnels are all down: every probe   *)
(* fails, every restart succeeds, and the interval may fire before the     *)
(* previous runCheck has ended                                             *)
(***************************************************************************)
InitOverlap ==
  /\ heap = [h \in {<<id, 0>> : id \in 1..OverlapFleet} |-> FleetRecord(h[1], 0)]
  /\ data = [id \in 1..OverlapFleet |-> <<id, 0>>]
  /\ store = Records(heap, data)
  /\ units = {FleetUnit(id) : id \in 1..OverlapFleet}
  /\ clock = 2 * OverlapFleet + 1
  /\ nextId = OverlapFleet + 1
  /\ config = Config(1, OverlapFleet, TRUE)
  /\ tasks = {}
  /\ cyc = [k \in Cycles |-> IdleCycle]
  /\ resp = [c \in Clients |-> "none"]
  /\ call = [kind |-> "none"]
  /\ hist = [maxR |-> [id \in Ids |-> 0], cleared |-> {}, heals |-> 0, late |-> {}]
  /\ started = 0
  /\ budget = MaxCycles

NextOverlap ==
  \/ \E k \in Cycles : CycleStart(k)
  \/ \E k \in Cycles : CycleAdvance(k)
  \/ \E t \in tasks : ProbeFail(t)
  \/ \E t \in tasks : RotateRestartOk(t)
  \/ \E t \in tasks : HealSettle(t)

SpecOverlap == InitOverlap /\ [][NextOverlap]_vars

(***************************************************************************)
(* cli.ts: pf add N (batches of BATCH_SIZE created in parallel) and pf up  *)
(* (one at a time), on their own                                           *)
(***************************************************************************)
SeqToSet(q) == {q[i] : i \in DOMAIN q}

\* a reservation that forgets the ports claimed earlier in the batch
ReservedNoBatch(usedPorts, failedPorts, batchPorts) == usedPorts \cup failedPorts

\* new Set([...usedPorts, ...failedPorts, ...batchPorts])
Reserved(usedPorts, failedPorts, batchPorts) == usedPorts \cup failedPorts \cup batchPorts

\* the createProxy({country, city, port}) calls of a batch, each up to
\* its docker.createContainer
Launched(ports) ==
  {[Task(Adding(1), "create", "createContainer", nextId + i - 1, NoRef, ports[i], nextId + i - 1, 0, {})
      EXCEPT !.country = CountryOf(NoCountry)] : i \in DOMAIN ports}

\* one pass of the pre-allocation loop: getUsedPorts, allocatePort with
\* everything reserved so far; after the last pass of a batch the
\* createProxy calls are made. A createProxy without credentials throws
\* before its first await and its port is remembered as failed.
AddAllocate(listOk, listOk2) ==
  LET batchCount == Min({call.width, call.count - call.batchStart})
      usedPorts  == getUsedPortsRuntime(heap, data, units, listOk)
      reserved   == Reserved(usedPorts, call.failedPorts, SeqToSet(call.batchPorts))
      port       == allocatePort(getUsedPortsRuntime(heap, data, units, listOk2), reserved)
      batchPorts == IF port = None THEN call.batchPorts ELSE Append(call.batchPorts, port)
      last       == call.j + 1 = batchCount
      made       == IF last /\ config.credsOk THEN Launched(batchPorts) ELSE {}
  IN /\ call.kind = "batch"
     /\ tasks = {}
     /\ call.batchStart < call.count
     /\ nextId + Len(batchPorts) - 1 <= MaxIds
     /\ nextId' = nextId + Cardinality(made)
     /\ call' = IF last
                THEN [call EXCEPT !.batchStart = @ + batchCount, !.j = 0, !.batchPorts = <<>>,
                                  !.passed = @ \o batchPorts,
                                  !.skipped = @ + (IF port = None THEN 1 ELSE 0),
                                  !.failedPorts = IF config.credsOk THEN @ ELSE @ \cup SeqToSet(batchPorts)]
                ELSE [call EXCEPT !.j = @ + 1, !.batchPorts = batchPorts,
                                  !.skipped = @ + (IF port = None THEN 1 ELSE 0)]
     /\ Commit(heap, data, made, hist.cleared)
     /\ UNCHANGED <<units, clock, config, cyc, resp, started, budget>>

\* createProxy of a batch throws at createContainer or at start:
\* failedPorts.add(port); the other calls of the batch go on
AddFailed(t) ==
  /\ t \in tasks /\ t.owner = Adding(1)
  /\ call' = [call EXCEPT !.failedPorts = @ \cup {t.port}]
  /\ Commit(heap, data, tasks \ {t}, hist.cleared)
  /\ UNCHANGED <<units, clock, nextId, config, cyc, resp, started, budget>>

InitBatch ==
  \E port \in [1..DrawnIds -> Ports], kind \in [1..DrawnIds -> DrawnKinds] :
    \E count \in 1..MaxCount, width \in {1, BatchWidth}, ok \in BOOLEAN :
      /\ config = Config(1, MaxPort, ok)
      /\ Drawn(port, kind, [id \in 1..DrawnIds |-> FALSE])
      /\ call = [kind |-> "batch", count |-> count, width |-> width, batchStart |-> 0, j |-> 0,
                 batchPorts |-> <<>>, failedPorts |-> {}, passed |-> <<>>, skipped |-> 0]
      /\ budget = 0

NextBatch ==
  \/ \E listOk \in BOOLEAN, listOk2 \in BOOLEAN : AddAllocate(listOk, listOk2)
  \/ \E t \in tasks : CreateContainerOk(t)
  \/ \E t \in tasks : StartOk(t)
  \/ \E t \in tasks : AddFailed(t)

SpecBatch == InitBatch /\ [][NextBatch]_vars

(***************************************************************************)
(* A process start: new Registry() loads the store file an earlier run     *)
(* left, then createProxy requests arrive                                  *)
(***************************************************************************)
\* Registry.load: the ids whose record is in the Map afterwards. A file
\* that is missing leaves the Map empty; so does one that cannot be read
\* or parsed: the catch logs 'Failed to load registry' and returns
load(file, ids) == IF file = "readable" THEN ids ELSE {}

StoreFiles == {"absent", "readable", "unreadable"}

InitStartup ==
  \E port \in [1..DrawnIds -> Ports], kind \in [1..DrawnIds -> DrawnKinds], file \in StoreFiles :
    LET written == {id \in 1..DrawnIds : kind[id] \in {"record", "both"}}
        loaded  == load(file, written)
        held    == [id \in 1..DrawnIds |->
                      IF id \in loaded THEN kind[id]
                      ELSE IF kind[id] = "both" THEN "unit"
                      ELSE IF kind[id] = "record" THEN "none" ELSE kind[id]]
    IN /\ file = "absent" => written = {}
       /\ config = Config(1, ServicePorts, TRUE)
       /\ Drawn(port, held, [id \in 1..DrawnIds |-> FALSE])
       /\ call = [kind |-> "startup", file |-> file,
                  written |-> {DrawnRecord(id, port, [i \in 1..DrawnIds |-> FALSE]) : id \in written}]
       /\ budget = 1

NextStartup ==
  \/ \E listOk \in BOOLEAN : CreateBegin(1, listOk)
  \/ \E listOk \in BOOLEAN : CreatePortExhausted(1, listOk)
  \/ \E t \in tasks : CreateContainerOk(t)
  \/ \E t \in tasks : CreateContainerFail(t)
  \/ \E t \in tasks : StartOk(t)
  \/ \E t \in tasks : StartFail(t)

SpecStartup == InitStartup /\ [][NextStartup]_vars

(***************************************************************************)
(* removeProxy(id) on its own, on a fleet as earlier runs left it          *)
(***************************************************************************)
InitRemove ==
  \E port \in [1..DrawnIds -> Ports], kind \in [1..DrawnIds -> DrawnKinds],
     healthy \in [1..DrawnIds -> BOOLEAN] :
    /\ \A id \in 1..DrawnIds : kind[id] \in {"none", "unit"} => ~healthy[id]
    /\ config = Config(1, MaxPort, TRUE)
    /\ Drawn(port, kind, healthy)
    /\ call = [kind |-> "remove",
               before |-> [records |-> {DrawnRecord(id, port, healthy)
                                        : id \in {i \in 1..DrawnIds : kind[i] \in {"record", "both"}}},
                           units |-> {DrawnUnit(id, port, kind)
                                      : id \in {i \in 1..DrawnIds : kind[i] \in {"unit", "both"}}}]]
    /\ budget = 1

NextRemove ==
  \/ \E id \in Ids : RemoveBegin(1, id)
  \/ \E id \in Ids : RemoveNotFound(1, id)
  \/ \E t \in tasks : RemoveStopOk(t)
  \/ \E t \in tasks : RemoveRmOk(t)
  \/ \E t \in tasks : RemoveGone(t)
  \/ \E t \in tasks : RemoveFail(t)

SpecRemove == InitRemove /\ [][NextRemove]_vars

(***************************************************************************)
(* bulkHealthCheck(proxyIds) on its own, for a list of distinct ids        *)
(***************************************************************************)
\* the lists of distinct ids, known and unknown, of up to MaxAsked entries
AskedLists ==
  {q \in UNION {[1..n -> 1..(DrawnIds + 1)] : n \in 0..MaxAsked} :
     \A i, j \in 1..Len(q) : i # j => q[i] # q[j]}

InitBulk ==
  \E port \in [1..DrawnIds -> Ports], kind \in [1..DrawnIds -> DrawnKinds],
     healthy \in [1..DrawnIds -> BOOLEAN] :
    /\ \A id \in 1..DrawnIds : kind[id] \in {"none", "unit"} => ~healthy[id]
    /\ config = Config(1, MaxPort, TRUE)
    /\ Drawn(port, kind, healthy)
    /\ call = [kind |-> "bulk", ids |-> <<>>, results |-> <<>>, map |-> <<>>,
               before |-> {DrawnRecord(id, port, healthy)
                           : id \in {i \in 1..DrawnIds : kind[i] \in {"record", "both"}}}]
    /\ budget = 1

NextBulk ==
  \/ \E proxyIds \in AskedLists : BulkBegin(1, proxyIds)
  \/ \E t \in tasks, ip \in IPs : ProbeOk(t, ip)
  \/ \E t \in tasks : ProbeFail(t)
  \/ \E m \in tasks : BulkDone(m)

SpecBulk == InitBulk /\ [][NextBulk]_vars

(***************************************************************************)
(* pf heal on a running fleet whose records the registry file held as      *)
(* healthy, some of them at or about the restart ceiling                   *)
(***************************************************************************)
InitHeal ==
  \E n \in 1..FleetSize : \E rs \in [1..n -> (RESTART_CEILING - 1)..(RESTART_CEILING + 1)] :
    /\ heap = [h \in {<<id, 0>> : id \in 1..n} |-> [FleetRecord(h[1], rs[h[1]]) EXCEPT !.healthy = TRUE]]
    /\ data = [id \in 1..n |-> <<id, 0>>]
    /\ store = Records(heap, data)
    /\ units = {FleetUnit(id) : id \in 1..n}
    /\ clock = 2 * n + 1
    /\ nextId = n + 1
    /\ config = Config(1, FleetSize, TRUE)
    /\ tasks = {}
    /\ cyc = [k \in Cycles |-> IdleCycle]
    /\ resp = [c \in Clients |-> "none"]
    /\ call = [kind |-> "none"]
    /\ hist = [maxR |-> [id \in Ids |-> IF id <= n THEN rs[id] ELSE 0], cleared |-> {}, heals |-> 0, late |-> {}]
    /\ started = 0
    /\ budget = 1

NextHeal ==
  \/ HealBegin(1)
  \/ \E t \in tasks : HealReconciled(t)
  \/ \E t \in tasks : HealPruned(t)
  \/ \E t \in tasks, ip \in IPs : ProbeOk(t, ip)
  \/ \E t \in tasks : ProbeFail(t)
  \/ \E m \in tasks : MendNext(m)
  \/ \E t \in tasks : RotateRestartOk(t)
  \/ \E t \in tasks : RotateFail(t)
  \/ \E t \in tasks : HealSettle(t)

SpecHeal == InitHeal /\ [][NextHeal]_vars

(***************************************************************************)
(* rotateProxy called by the operator on a fleet as earlier runs left it,  *)
(* under whatever configuration the service now runs with                  *)
(***************************************************************************)
InitRotate ==
  \E port \in [1..DrawnIds -> Ports], kind \in [1..DrawnIds -> DrawnKinds],
     country \in [1..DrawnIds -> Countries \cup {NoCountry}],
     dc \in Countries \cup {NoCountry}, ok \in BOOLEAN :
    /\ \A id \in 1..DrawnIds : kind[id] = "none" => country[id] = NoCountry
    /\ config = [Config(1, MaxPort, ok) EXCEPT !.defaultCountry = dc]
    /\ heap = [h \in {<<id, 0>> : id \in {i \in 1..DrawnIds : kind[i] \in {"record", "both"}}}
                 |-> [DrawnRecord(h[1], port, [i \in 1..DrawnIds |-> FALSE]) EXCEPT !.country = country[h[1]]]]
    /\ data = [id \in {i \in 1..DrawnIds : kind[i] \in {"record", "both"}} |-> <<id, 0>>]
    /\ store = Records(heap, data)
    /\ units = {[DrawnUnit(id, port, kind) EXCEPT !.country = country[id]]
                : id \in {i \in 1..DrawnIds : kind[i] \in {"unit", "both"}}}
    /\ clock = 2 * DrawnIds + 1
    /\ nextId = DrawnIds + 1
    /\ tasks = {}
    /\ cyc = [k \in Cycles |-> IdleCycle]
    /\ resp = [c \in Clients |-> "none"]
    /\ call = [kind |-> "none"]
    /\ hist = [maxR |-> [id \in Ids |-> 0], cleared |-> {}, heals |-> 0, late |-> {}]
    /\ started = 0
    /\ budget = RotateCalls

NextRotate ==
  \/ \E c \in Clients, id \in Ids : RotateBegin(c, id)
  \/ \E c \in Clients, id \in Ids : RotateNotFound(c, id)
  \/ \E t \in tasks : RotateRestartOk(t)
  \/ \E t \in tasks : RotateRecreate(t)
  \/ \E t \in tasks : RotateCredentialsMissing(t)
  \/ \E t \in tasks : RotateFail(t)
  \/ \E t \in tasks : CreateContainerOk(t)
  \/ \E t \in tasks : CreateContainerFail(t)
  \/ \E t \in tasks : StartOk(t)
  \/ \E t \in tasks : StartFail(t)

SpecRotate == InitRotate /\ [][NextRotate]_vars

(***************************************************************************)
(* The control loop and one proxy whose tunnel never comes up: every probe *)
(* fails, a run ends before the interval fires again, and the unit may be  *)
(* removed from outside                                                    *)
(***************************************************************************)
InitCeiling ==
  /\ heap = [h \in {<<1, 0>>} |-> FleetRecord(1, 0)]
  /\ data = [id \in {1} |-> <<id, 0>>]
  /\ store = Records(heap, data)
  /\ units = {FleetUnit(1)}
  /\ clock = 3
  /\ nextId = 2
  /\ config = Config(1, MaxPort, TRUE)
  /\ tasks = {}
  /\ cyc = [k \in Cycles |-> IdleCycle]
  /\ resp = [c \in Clients |-> "none"]
  /\ call = [kind |-> "none"]
  /\ hist = [maxR |-> [id \in Ids |-> 0], cleared |-> {}, heals |-> 0, late |-> {}]
  /\ started = 0
  /\ budget = MaxCeilingStarted

NextCeiling ==
  \/ CycleStart(1)
  \/ CycleAdvance(1)
  \/ \E t \in tasks : ProbeFail(t)
  \/ \E t \in tasks : RotateRestartOk(t)
  \/ \E t \in tasks : RotateRecreate(t)
  \/ \E t \in tasks : CreateContainerOk(t)
  \/ \E t \in tasks : StartOk(t)
  \/ \E t \in tasks : HealSettle(t)
  \/ \E u \in units : ExternalRemove(u)

SpecCeiling == InitCeiling /\ [][NextCeiling]_vars

(***************************************************************************)
(* The control loop for as long as the service runs: the interval fires    *)
(* again whenever a run has ended, every await of a run settles, the       *)
(* runtime refuses nothing it can do, and nobody else acts.  The service   *)
(* runs with the configuration validateConfig let through (a token alone   *)
(* passes it), over records and units an earlier run left.                 *)
(***************************************************************************)
InitRetry ==
  \E present \in SUBSET (1..FleetSize), ok \in BOOLEAN :
    /\ heap = [h \in {<<id, 0>> : id \in 1..FleetSize} |-> FleetRecord(h[1], 0)]
    /\ data = [id \in 1..FleetSize |-> <<id, 0>>]
    /\ store = Records(heap, data)
    /\ units = {FleetUnit(id) : id \in present}
    /\ clock = 2 * FleetSize + 1
    /\ nextId = FleetSize + 1
    /\ config = Config(1, MaxPort, ok)
    /\ tasks = {}
    /\ cyc = [k \in Cycles |-> IdleCycle]
    /\ resp = [c \in Clients |-> "none"]
    /\ call = [kind |-> "none"]
    /\ hist = [maxR |-> [id \in Ids |-> 0], cleared |-> {}, heals |-> 0, late |-> {}]
    /\ started = 0
    /\ budget = 0

NextRetry ==
  \/ CycleTick(1)
  \/ CycleAdvance(1)
  \/ \E t \in tasks, ip \in IPs : ProbeOk(t, ip)
  \/ \E t \in tasks : ProbeFail(t)
  \/ \E t \in tasks : RotateRestartOk(t)
  \/ \E t \in tasks : RotateRecreate(t)
  \/ \E t \in tasks : RotateCredentialsMissing(t)
  \/ \E t \in tasks : CreateContainerOk(t)
  \/ \E t \in tasks : StartOk(t)
  \/ \E t \in tasks : HealSettle(t)

\* timers fire and pending promises settle: no step of the loop that stays
\* possible is put off for ever
SpecRetry ==
  /\ InitRetry /\ [][NextRetry]_vars
  /\ WF_vars(CycleTick(1))
  /\ WF_vars(CycleAdvance(1))
  /\ WF_vars(\E t \in tasks : (\E ip \in IPs : ProbeOk(t, ip)) \/ ProbeFail(t))
  /\ WF_vars(\E t \in tasks : RotateRestartOk(t) \/ RotateRecreate(t) \/ RotateCredentialsMissing(t))
  /\ WF_vars(\E t \in tasks : CreateContainerOk(t) \/ StartOk(t))
  /\ WF_vars(\E t \in tasks : HealSettle(t))

(***************************************************************************)
(* GET /proxies/:id/health, await by await, for either checkProxyHealth    *)
(* the repository holds.  A timer that is armed fires, and what the        *)
(* runtime is asked to do it does or refuses; whether the address endpoint *)
(* behind an open connection ever answers is up to the endpoint.           *)
(***************************************************************************)
InitProbe ==
  \E port \in [1..DrawnIds -> Ports], kind \in [1..DrawnIds -> DrawnKinds],
     healthy \in [1..DrawnIds -> BOOLEAN], variant \in DOMAIN Stages :
    /\ \A id \in 1..DrawnIds : kind[id] \in {"none", "unit"} => ~healthy[id]
    /\ config = Config(1, MaxPort, TRUE)
    /\ Drawn(port, kind, healthy)
    /\ call = [kind |-> "probe", variant |-> variant,
               last |-> [stages |-> {}, result |-> HealthCheckResult(None, FALSE, NoIp, "none")]]
    /\ budget = MaxClients

NextProbe ==
  \/ \E c \in Clients, id \in Ids : ProbeBegin(c, id)
  \/ \E c \in Clients, id \in Ids : ProbeNotFound(c, id)
  \/ \E t \in tasks, to \in {"dial", "handshake", "request", "sidecar"} : ProbeStage(t, to)
  \/ \E t \in tasks, ip \in IPs : t.pc # "probe" /\ ProbeOk(t, ip)
  \/ \E t \in tasks : t.pc # "probe" /\ ProbeFail(t)

\* every stage but "request" ends by itself or by its timer
SpecProbe ==
  /\ InitProbe /\ [][NextProbe]_vars
  /\ WF_vars(\E t \in tasks : /\ t.pc \in {"probe", "dial", "handshake", "sidecar"}
                               /\ \/ \E to \in {"dial", "handshake", "request", "sidecar"} : ProbeStage(t, to)
                                  \/ \E ip \in IPs : t.pc # "probe" /\ ProbeOk(t, ip)
                                  \/ t.pc # "probe" /\ ProbeFail(t))

(***************************************************************************)
(* docker exec proxyfarm-manager pf add beside the running service: the    *)
(* cli is a process of its own, whose new Registry() loads the registry    *)
(* file into a Map of its own (kept in the task's snap); heap and data     *)
(* are the Map of the service, loaded when the service started.  Either    *)
(* process writes the whole file from its own Map.                         *)
(***************************************************************************)
\* pf add: load(), then createProxy up to its docker.createContainer
CliAddBegin(listOk) ==
  LET loaded == store
      port   == allocatePort({r.port : r \in loaded} \cup (IF listOk THEN {u.port : u \in units} ELSE {}), {})
  IN /\ call.kind = "cli"
     /\ ~Busy(tasks, Adding(1))
     /\ nextId <= MaxIds
     /\ port # None
     /\ config.credsOk
     /\ nextId' = nextId + 1
     /\ Commit(heap, data,
               tasks \cup {[Task(Adding(1), "create", "createContainer", nextId, NoRef, port, nextId, 0, loaded)
                             EXCEPT !.country = CountryOf(NoCountry)]},
               hist.cleared)
     /\ started < budget /\ started' = started + 1
     /\ UNCHANGED <<units, clock, config, cyc, resp, call, budget>>

\* the cli's container.start() succeeds; its registry.add sets the record
\* in the cli's Map and save() writes that Map to the file
CliStartOk(t) ==
  /\ t \in tasks /\ t.pc = "start" /\ t.owner = Adding(1)
  /\ call.kind = "cli"
  /\ HasUnit(units, t.nid)
  /\ UnitOf(units, t.nid).State # "running"
  /\ ~PortBusy(units, t.nid, t.port)
  /\ units' = SetState(units, t.nid, "running")
  /\ clock' = clock + 1
  /\ CommitSaved(heap, data, tasks \ {t}, hist.cleared, t.snap \cup {CreatedRecord(t)}, {})
  /\ call' = [call EXCEPT !.added = @ \cup {t.nid}]
  /\ UNCHANGED <<nextId, config, cyc, resp, started, budget>>

InitCli ==
  /\ heap = [h \in {<<id, 0>> : id \in 1..FleetSize} |-> FleetRecord(h[1], 0)]
  /\ data = [id \in 1..FleetSize |-> <<id, 0>>]
  /\ store = Records(heap, data)
  /\ units = {FleetUnit(id) : id \in 1..FleetSize}
  /\ clock = 2 * FleetSize + 1
  /\ nextId = FleetSize + 1
  /\ config = Config(1, MaxPort, TRUE)
  /\ tasks = {}
  /\ cyc = [k \in Cycles |-> IdleCycle]
  /\ resp = [c \in Clients |-> "none"]
  /\ call = [kind |-> "cli", added |-> {}]
  /\ hist = [maxR |-> [id \in Ids |-> 0], cleared |-> {}, heals |-> 0, late |-> {}]
  /\ started = 0
  /\ budget = MaxStarted

NextCli ==
  \/ \E listOk \in BOOLEAN : CliAddBegin(listOk)
  \/ \E t \in tasks : CreateContainerOk(t)
  \/ \E t \in tasks : CliStartOk(t)
  \/ \E c \in Clients, id \in Ids : ProbeBegin(c, id)
  \/ \E t \in tasks, ip \in IPs : ProbeOk(t, ip)
  \/ \E t \in tasks : ProbeFail(t)

SpecCli == InitCli /\ [][NextCli]_vars

(***************************************************************************)
(* Properties of the concurrent control plane                              *)
(***************************************************************************)
rotating == {"rotate", "heal", "mend"}

\* C1: in every reachable state of the registry, under any interleaving of
\* the control plane's operations, no two records share a port.
PortsUnique ==
  \A a, b \in DOMAIN data : a # b => heap[data[a]].port # heap[data[b]].port

\* C2: when rotateProxy(id) restarts the unit in place and returns, with no
\* other operation in flight meanwhile, the registry record of id has
\* restarts = its value at the call + 1, healthy = false and no exitIp.
RotateInPlaceAddsOne ==
  [][\A t \in tasks :
       (tasks = {t} /\ t.op \in rotating /\ RotateRestartOk(t))
         => /\ t.id \in DOMAIN data'
            /\ heap'[data'[t.id]].restarts = t.r0 + 1
            /\ heap'[data'[t.id]].healthy = FALSE
            /\ heap'[data'[t.id]].exitIp = NoIp]_vars

\* C3: when rotateProxy(id) finds the unit gone, recreates it and returns,
\* the record it returns has restarts = the old record's restarts + 1,
\* healthy = false and no exitIp.
RecreateCarriesRestarts ==
  [][\A t \in tasks :
       (t.op \in rotating /\ StartOk(t))
         => /\ t.nid \in DOMAIN data'
            /\ heap'[data'[t.nid]].restarts = heap[t.ref].restarts + 1
            /\ heap'[data'[t.nid]].healthy = FALSE
            /\ heap'[data'[t.nid]].exitIp = NoIp]_vars

\* C6: once a rotate of id has completed, the record of id keeps
\* healthy = false and no exitIp until a probe that started after the
\* rotate finished has completed; a probe in flight since before cannot
\* write them.
ClearedUntilNextProbe ==
  \A id \in hist.cleared :
     id \in DOMAIN data => heap[data[id]].healthy = FALSE /\ heap[data[id]].exitIp = NoIp

\* C5: for every id, the restarts value the registry shows never
\* decreases over time, also when the record is deleted and later
\* re-synthesized from its unit's labels under the same id.
RestartsNeverDecrease ==
  \A id \in DOMAIN data : heap[data[id]].restarts >= hist.maxR[id]

(***************************************************************************)
(* Properties of the control loop                                          *)
(***************************************************************************)
\* C4: at the moment the control loop calls rotateProxy(id) the record of
\* id has restarts < 3, also when heals of the same id started by
\* overlapping cycles interleave.
HealCallsBelowCeiling ==
  [][\A t \in tasks' \ tasks :
       (t.op = "heal" /\ t.pc = "restart")
         => t.id \in DOMAIN data /\ heap[data[t.id]].restarts < RESTART_CEILING]_vars

\* two cycles heal the same id at once: the rotate of one has returned and
\* raised restarts while the rotate the other called earlier is still out,
\* and the count has reached the ceiling
OverlappingHeals ==
  \E a, b \in tasks :
    /\ a.op = "heal" /\ b.op = "heal" /\ a.id = b.id /\ a.owner # b.owner
    /\ a.pc = "settle" /\ b.pc = "restart"
    /\ a.id \in DOMAIN data /\ heap[data[a.id]].restarts >= RESTART_CEILING

(***************************************************************************)
(* Properties of the port allocator                                        *)
(***************************************************************************)
\* the answer the claims expect of an allocation that avoids these ports
SmallestFree(avoid) ==
  LET free == {p \in Ports : config.portRangeStart <= p /\ p <= config.portRangeEnd} \ avoid
  IN IF free = {} THEN None ELSE Min(free)

\* C9 as stated: allocatePort(exclude) returns the smallest port of the
\* range that is neither a registry record's port nor excluded, fails with
\* PortExhausted exactly when there is none, and leaves the registry alone.
AllocatesSmallestUnregistered ==
  call.by # "none" =>
    /\ call.out = SmallestFree({r.port : r \in call.before} \cup call.exclude)
    /\ Records(heap, data) = call.before

\* C9, amended: the ports avoided are those of getUsedPorts() and exclude;
\* the runtime-aware getUsedPorts also counts the port label of every
\* listed unit when the listing succeeds.
AllocatesSmallestUnused ==
  call.by # "none" =>
    /\ call.out = SmallestFree({r.port : r \in call.before} \cup call.exclude
                               \cup (IF call.by = "runtime" /\ call.listOk
                                     THEN {u.port : u \in units} ELSE {}))
    /\ call.out # None => config.portRangeStart <= call.out /\ call.out <= config.portRangeEnd
    /\ Records(heap, data) = call.before

\* an allocation that skipped a port only a unit's label holds, and one that
\* found the range exhausted
AllocationSkipsLabelledPort ==
  /\ call.by = "runtime" /\ call.listOk
  /\ call.out # None
  /\ \E u \in units : /\ u.port < call.out
                      /\ u.port \notin call.exclude
                      /\ u.port \notin {r.port : r \in call.before}

(***************************************************************************)
(* Properties of the create scenario                                       *)
(***************************************************************************)
\* createProxy calls that got a port so far, and the records they added
Made == nextId - call.firstId

NewRecords == {id \in DOMAIN data : id >= call.firstId}

\* no call so far was failed by the runtime
Clean == Cardinality(NewRecords) + Cardinality(tasks) = Made

\* C10: from a range with exactly 3 free ports, three createProxy calls in
\* a row that the runtime does not fail succeed and get the 3 free ports in
\* ascending order; a fourth fails with PortExhausted, starts no unit and
\* adds no record.
ThreeCreatesThenExhausted ==
  Clean =>
    /\ Made <= FreePorts
    /\ \A id \in NewRecords : heap[data[id]].port = call.free[id - call.firstId + 1]
    /\ \A u \in units : u.Id >= call.firstId => u.port = call.free[u.Id - call.firstId + 1]
    /\ started > Made =>
         /\ Made = FreePorts
         /\ resp[1] = "PortExhausted"
         /\ tasks = {}
         /\ Cardinality(NewRecords) = FreePorts
         /\ Cardinality({u \in units : u.Id >= call.firstId}) = FreePorts

\* the fourth call has failed after three that succeeded
FourthCreateExhausted ==
  /\ Clean /\ Made = FreePorts /\ started = FreePorts + 1
  /\ resp[1] = "PortExhausted"
  /\ Cardinality(NewRecords) = FreePorts

(***************************************************************************)
(* Properties of reconciliation                                            *)
(***************************************************************************)
NoSharedPort(records) == \A a, b \in records : a.id # b.id => a.port # b.port

\* C7 as stated: when a reconciliation run completes, reconcileContainers()
\* or the healing path of healProxies, no two records share a port,
\* whatever the registry and the runtime held before.
UniqueAfterReconciliation ==
  \A i \in 1..Len(call.after) : NoSharedPort(call.after[i].records)

\* C7, amended: when Steps 1 to 4 of healProxies complete, no two records
\* share a port, whatever the registry and the runtime held before
\* (reconcileContainers alone removes no duplicate).
UniqueAfterHeal ==
  \A i \in 1..Len(call.after) : call.ops[i] = "heal" => NoSharedPort(call.after[i].records)

\* a healing run has completed on a fleet in which two units shared a port,
\* one of them with a record, and has left a record on that port
HealedDuplicates ==
  /\ Len(call.after) >= 1 /\ call.ops[1] = "heal"
  /\ \E u, v \in call.before.units :
       /\ u.Id # v.Id /\ u.port = v.port
       /\ \E r \in call.before.records : r.id = u.Id
       /\ \E r \in call.after[1].records : r.port = u.port

Holders(H, D, port) == {id \in DOMAIN D : H[D[id]].port = port}

RotateFailsOnlyInRecreation ==
  [][\A t \in tasks :
        (/\ t.op = "rotate"
         /\ ~Busy(tasks', t.owner)
         /\ resp'[t.owner[2]] \notin {"rotated", "recreated"})
        => (t.pc \in {"createContainer", "start"} \/ ~HasUnit(units, heap[t.ref].containerId))]_vars

(***************************************************************************)
(* Properties of the records' unit references                              *)
(***************************************************************************)
\* C12: in every reachable state no two registry records have the same
\* containerId, also after reconcileContainers has synthesized a record for
\* the labelled unit of a createProxy that is still in flight.
ContainerIdsUnique ==
  \A a, b \in DOMAIN data : a # b => heap[data[a]].containerId # heap[data[b]].containerId

\* createProxy has added its record over the one a reconciliation
\* synthesized for its unit while the call was in flight
AddedOverSynthesized ==
  \E c, d \in Clients, id \in DOMAIN data :
    /\ resp[c] = "created" /\ resp[d] = "reconciled"
    /\ data[id] = <<id, 1>>
    /\ heap[data[id]].containerId = id

(***************************************************************************)
(* Properties of the dedupe step                                           *)
(***************************************************************************)
\* C13: for every port held by more than one record when the dedupe step
\* runs, exactly one of those records remains afterwards: the oldest by
\* createdAt among the healthy ones, or the oldest overall when none is
\* healthy; records on ports held by a single record are untouched.
DedupeKeepsOldestHealthy ==
  [][\A t \in tasks : HealPruned(t) =>
        LET before == PruneMissing(heap, data, t.snap)
            rec(id) == before.heap[before.data[id]]
        IN \A p \in Ports :
             LET group == {id \in DOMAIN before.data : rec(id).port = p}
                 sound == {id \in group : rec(id).healthy}
                 pool  == IF sound # {} THEN sound ELSE group
             IN /\ group # {} =>
                     \E k \in pool : /\ \A o \in pool : rec(k).createdAt <= rec(o).createdAt
                                      /\ Holders(heap', data', p) = {k}
                /\ \A id \in group \cap DOMAIN data' : heap'[data'[id]] = rec(id)]_vars

\* a healing run has met two records with units on one port, the younger
\* healthy and the older not, and has kept the younger alone
KeptYoungerHealthy ==
  /\ Len(call.after) >= 1 /\ call.ops[1] = "heal"
  /\ \E r, q \in call.before.records :
       /\ r.port = q.port /\ r.createdAt < q.createdAt /\ ~r.healthy /\ q.healthy
       /\ \E u, v \in call.before.units : u.Id = r.containerId /\ v.Id = q.containerId
       /\ q \in call.after[1].records
       /\ \A x \in call.after[1].records : x.id # r.id

(***************************************************************************)
(* Properties of the maintenance command's healing loop                    *)
(***************************************************************************)
\* C14: when healProxies finds a record unhealthy with restarts at or above
\* 3, it does not call rotateProxy for it, leaves its restarts unchanged and
\* does not delete the record.
HealSkipsAtCeiling ==
  [][/\ \A id \in DOMAIN data :
          heap[data[id]].restarts >= RESTART_CEILING =>
            /\ id \in DOMAIN data'
            /\ heap'[data'[id]].restarts = heap[data[id]].restarts
     /\ \A t \in tasks' \ tasks :
          (t.op = "mend" /\ t.pc = "restart") => heap[data[t.id]].restarts < RESTART_CEILING]_vars

\* the maintenance command has completed after its health check found a
\* record with restarts = 3 unhealthy
SkippedAtCeiling ==
  /\ resp[1] = "maintained"
  /\ \E id \in DOMAIN data : heap[data[id]].restarts = RESTART_CEILING /\ ~heap[data[id]].healthy

(***************************************************************************)
(* Properties of reconcileContainers after an outside removal              *)
(***************************************************************************)
\* the records of this set whose unit is among these units
Backed(records, U) == {r \in records : \E u \in U : u.Id = r.containerId}

\* C15: if a record's backing unit has been removed from the runtime by
\* someone else, the next reconcileContainers() deletes that record and
\* completes without raising an error, leaving every record whose unit still
\* exists untouched.
ReconcileDropsUnbacked ==
  (Len(call.after) >= 1 /\ call.ops[1] = "reconcile") =>
    /\ \E c \in Clients : resp[c] = "reconciled"
    /\ \A r \in call.before.records \ Backed(call.before.records, call.before.units) :
         \A x \in call.after[1].records : x.id # r.id
    /\ Backed(call.before.records, call.before.units) \subseteq call.after[1].records

\* a reconciliation has completed on a registry that held a record whose
\* unit was gone beside a record whose unit was there
DroppedUnbacked ==
  /\ Len(call.after) >= 1 /\ call.ops[1] = "reconcile"
  /\ \E r, q \in call.before.records :
       /\ r \notin Backed(call.before.records, call.before.units)
       /\ q \in Backed(call.before.records, call.before.units)
       /\ q \in call.after[1].records
       /\ \A x \in call.after[1].records : x.id # r.id

(***************************************************************************)
(* Properties of bulkHealthCheck                                           *)
(***************************************************************************)
\* C16: for any list of distinct ids, known or unknown, and any pattern of
\* probe failures, bulkHealthCheck(ids) completes with exactly one result
\* per requested id, and each id's result and record reflect that id's own
\* probe outcome alone.
BulkOneResultEach ==
  (call.kind = "bulk" /\ resp[1] = "checked") =>
    /\ DOMAIN call.map = SeqRange(call.ids)
    /\ \A id \in DOMAIN call.map :
         /\ call.map[id].proxyId = id
         /\ IF \E r \in call.before : r.id = id
            THEN /\ id \in DOMAIN data
                 /\ heap[data[id]].healthy = call.map[id].healthy
                 /\ call.map[id].healthy => /\ call.map[id].exitIp \in IPs
                                            /\ heap[data[id]].exitIp = call.map[id].exitIp
                 /\ ~call.map[id].healthy => heap[data[id]].exitIp = NoIp
            ELSE /\ id \notin DOMAIN data
                 /\ ~call.map[id].healthy
                 /\ call.map[id].error = "Proxy not found"
    /\ \A r \in call.before : r.id \notin SeqRange(call.ids) => r \in Records(heap, data)
    /\ {r.id : r \in Records(heap, data)} = {r.id : r \in call.before}

\* a bulk check of a known healthy, a known failing and an unknown id has
\* completed
BulkMixedOutcomes ==
  /\ call.kind = "bulk" /\ resp[1] = "checked" /\ Len(call.ids) = 3
  /\ \E a, b, x \in DOMAIN call.map :
       /\ call.map[a].healthy
       /\ ~call.map[b].healthy /\ call.map[b].error = "Proxy not responding"
       /\ call.map[x].error = "Proxy not found"

(***************************************************************************)
(* Properties of checkProxyHealth                                          *)
(***************************************************************************)
\* C17: checkProxyHealth(id): if a probe yields a well-formed address the
\* record becomes healthy=true with exitIp set to that address; on every
\* failure path of a known id the record becomes healthy=false and exitIp
\* keeps its previous value; for an unknown id it returns a not-found result
\* and changes no record.
ProbeSetsHealth ==
  [][/\ \A t \in tasks, ip \in IPs :
          (t.op = "check" /\ t.id \in DOMAIN data /\ ProbeOk(t, ip)) =>
            heap'[data'[t.id]] = [heap[data[t.id]] EXCEPT !.healthy = TRUE, !.exitIp = ip]
     /\ \A t \in tasks :
          (t.op = "check" /\ t.id \in DOMAIN data /\ ProbeFail(t)) =>
            heap'[data'[t.id]] = [heap[data[t.id]] EXCEPT !.healthy = FALSE]
     /\ \A c \in Clients, id \in Ids :
          ProbeNotFound(c, id) =>
            /\ resp'[c] = "ProxyNotFound"
            /\ Records(heap', data') = Records(heap, data)]_vars

\* a probe of a record that had an exit address has failed: the record is
\* unhealthy and still shows the address
FailedKeepsAddress ==
  \E c \in Clients, id \in DOMAIN data :
    /\ resp[c] = "unhealthy"
    /\ ~heap[data[id]].healthy
    /\ heap[data[id]].exitIp \in IPs

(***************************************************************************)
(* Properties of removeProxy                                               *)
(***************************************************************************)
\* C18: removeProxy(id) on an unknown id fails with ProxyNotFound and
\* changes nothing; on a known id it stops and removes the backing unit
\* first and deletes the record only afterwards, and it still succeeds and
\* deletes the record when the unit is already gone from the runtime.
RemoveUnitThenRecord ==
  [][/\ \A id \in Ids :
          RemoveNotFound(1, id) =>
            /\ resp'[1] = "NotFound"
            /\ Records(heap', data') = Records(heap, data)
            /\ units' = units
     /\ \A t \in tasks :
          t.op = "remove" =>
            /\ Records(heap, data) \ {heap[t.ref]} \subseteq Records(heap', data')
            /\ t.id \notin DOMAIN data'
                 => /\ ~HasUnit(units', heap[t.ref].containerId)
                    /\ resp'[1] = "removed"
                    /\ tasks' = {}
            /\ (HasUnit(units', heap[t.ref].containerId) \/ tasks' # {})
                 => /\ t.id \in DOMAIN data'
                    /\ heap'[data'[t.id]] = heap[t.ref]
            /\ ~HasUnit(units, heap[t.ref].containerId)
                 => /\ t.id \notin DOMAIN data'
                    /\ resp'[1] = "removed"]_vars

\* removeProxy has succeeded on a record whose unit was already gone,
\* beside a record it left alone
RemovedAfterGone ==
  /\ call.kind = "remove" /\ resp[1] = "removed"
  /\ \E r, q \in call.before.records :
       /\ r.id # q.id
       /\ ~\E u \in call.before.units : u.Id = r.containerId
       /\ r.id \notin DOMAIN data
       /\ q \in Records(heap, data)

(***************************************************************************)
(* Properties of createProxy                                               *)
(***************************************************************************)
\* C19: createProxy adds a record only after the runtime has created and
\* started the backing unit, and the record it adds has healthy=false,
\* restarts=0 and exitIp unset; if it fails with CredentialsMissing,
\* PortExhausted or UnitCreateFailed, the registry is left unchanged.
CreateAddsAfterStart ==
  [][/\ \A t \in tasks :
          /\ CreateContainerOk(t) => Records(heap', data') = Records(heap, data)
          /\ (StartOk(t) /\ t.op = "create") =>
               /\ HasUnit(units', t.nid)
               /\ UnitOf(units', t.nid).State = "running"
               /\ t.nid \in DOMAIN data'
               /\ ~heap'[data'[t.nid]].healthy
               /\ heap'[data'[t.nid]].restarts = 0
               /\ heap'[data'[t.nid]].exitIp = NoIp
               /\ heap'[data'[t.nid]].port = t.port
               /\ Records(heap', data') \ {heap'[data'[t.nid]]} \subseteq Records(heap, data)
          /\ (CreateContainerFail(t) \/ StartFail(t)) =>
               Records(heap', data') = Records(heap, data)
     /\ \A c \in Clients :
          (~Busy(tasks, Client(c)) /\ ~Busy(tasks', Client(c))
             /\ resp'[c] \in {"CredentialsMissing", "PortExhausted", "UnitCreateFailed"}
             /\ started' # started)
            => Records(heap', data') = Records(heap, data)]_vars

\* one createProxy has added its record beside a running unit, and another
\* has failed at the runtime and added none
CreatedAndFailed ==
  \E c, d \in Clients :
    /\ resp[c] = "created" /\ resp[d] = "UnitCreateFailed"
    /\ tasks = {}
    /\ Cardinality(DOMAIN data) = 1
    /\ \A id \in DOMAIN data :
         /\ ~heap[data[id]].healthy /\ heap[data[id]].restarts = 0 /\ heap[data[id]].exitIp = NoIp
         /\ HasUnit(units, heap[data[id]].containerId)
         /\ UnitOf(units, heap[data[id]].containerId).State = "running"

(***************************************************************************)
(* Properties of the registry store at start-up                            *)
(***************************************************************************)
\* C21: if the registry store file exists but cannot be read or parsed at
\* start-up, the process fails instead of continuing with an empty
\* registry: no operation runs against, or saves, an empty fleet view in
\* place of the unreadable store.
UnreadableStoreFailsFast ==
  (call.kind = "startup" /\ call.file = "unreadable")
    => /\ started = 0
       /\ tasks = {}
       /\ Records(heap, data) = {}

(***************************************************************************)
(* Properties of the multi-create commands                                 *)
(***************************************************************************)
\* C22: during one multi-create command no port is passed to createProxy
\* twice: the ports pre-allocated in a batch are pairwise distinct and
\* distinct from all registry ports, a port whose creation failed is
\* excluded from every later allocation of the command, and a failure on
\* one proxy does not stop the remaining ones from being created.
BatchPortsDistinct ==
  [][call.kind = "batch" =>
       /\ \A i, k \in DOMAIN call'.passed : i # k => call'.passed[i] # call'.passed[k]
       /\ \A i, k \in DOMAIN call'.batchPorts : i # k => call'.batchPorts[i] # call'.batchPorts[k]
       /\ call'.failedPorts \subseteq SeqToSet(call'.passed)
       /\ (call'.batchStart >= call'.count /\ tasks' = {})
            => Len(call'.passed) + call'.skipped = call'.count
       /\ \A p \in (SeqToSet(call'.batchPorts) \ SeqToSet(call.batchPorts))
                     \cup (SeqToSet(call'.passed) \ SeqToSet(call.passed)) :
             /\ p \notin getUsedPorts(heap, data)
             /\ p \notin call.failedPorts
             /\ p \notin SeqToSet(call.passed)
       /\ \A t \in tasks :
             AddFailed(t) => /\ tasks' = tasks \ {t}
                             /\ t.port \in call'.failedPorts
                             /\ call'.batchStart = call.batchStart]_vars

\* a command for MaxCount proxies has ended: one creation failed, the
\* others went on, and every asked proxy was given its own port
BatchWentOn ==
  /\ call.kind = "batch" /\ call.width = BatchWidth /\ call.count = MaxCount
  /\ call.batchStart >= call.count /\ tasks = {}
  /\ Cardinality(call.failedPorts) = 1
  /\ Len(call.passed) = MaxCount
  /\ Cardinality(DOMAIN data) > Cardinality({r \in Range(heap) : r.createdAt <= 2 * DrawnIds})

\* C23: at any moment at most MAX_CONCURRENT_HEALS auto-heal operations
\* (rotate, settle delay, re-probe) started by the control loop are in
\* flight, including when a cycle runs longer than the health interval and
\* the next cycle starts before it ends.
HealsInFlightCapped ==
  Cardinality({t \in tasks : t.op = "heal"}) <= MAX_CONCURRENT_HEALS

\* C24: a record that is unhealthy with restarts at or above 3 is in a
\* terminal state: without an operator action (remove, manual rotate,
\* counter reset) no step of the control loop changes its healthy, exitIp
\* or restarts fields.
CeilingIsTerminal ==
  [][\A id \in DOMAIN data :
       (~heap[data[id]].healthy /\ heap[data[id]].restarts >= RESTART_CEILING /\ id \in DOMAIN data')
         => /\ heap'[data'[id]].healthy = heap[data[id]].healthy
            /\ heap'[data'[id]].exitIp = heap[data[id]].exitIp
            /\ heap'[data'[id]].restarts = heap[data[id]].restarts]_vars

(***************************************************************************)
(* Properties of the HTTP API                                              *)
(***************************************************************************)
\* C25: through the HTTP API, delete, rotate and health-get on an id that
\* is not in the registry each return a not-found signal distinct from the
\* generic-failure response, and the not-found signal is returned only
\* when the addressed id is unknown.
NotFoundOnlyWhenUnknown ==
  [][/\ \A id \in Ids :
          /\ ApiRemoveNotFound(1, id) => resp'[1] = "404"
          /\ ApiRotateNotFound(1, id) => resp'[1] = "404"
          /\ ApiProbeNotFound(1, id) => resp'[1] \notin {"500", "healthy", "unhealthy"}
     /\ \A t \in tasks :
          (t.owner = Client(1) /\ ~Busy(tasks', Client(1)) /\ t.id \in DOMAIN data')
            => resp'[1] \notin {"404", "200 Proxy not found"}]_vars

(***************************************************************************)
(* Properties of reconciliation beside other operations                    *)
(***************************************************************************)
\* C26: reconcileContainers never deletes the record of a unit that exists
\* in the runtime: a createProxy that completes (unit started, record
\* added) while a reconciliation is between its runtime listing and its
\* registry listing does not lose its record.
ReconcileKeepsBackedRecords ==
  [][\A t \in tasks :
       ReconcileApply(t)
         => \A id \in DOMAIN data :
              HasUnit(units, heap[data[id]].containerId) => id \in DOMAIN data']_vars

\* C27: the orphan step of healProxies stops and removes a unit only if no
\* registry record references that unit at the moment of removal, and no
\* unit that still has, or is about to get from an in-flight createProxy, a
\* record is touched; every unit whose record the dedupe step of the same
\* run deleted is among the orphans.
OrphanStepSparesReferenced ==
  [][\A t \in tasks :
       /\ (HealOrphanStop(t, TRUE) \/ HealOrphanRemoved(t))
            => /\ NextOrphan(t.snap).Id \notin {r.containerId : r \in Records(heap, data)}
               /\ ~\E x \in tasks : x.pc = "start" /\ x.nid = NextOrphan(t.snap).Id
       /\ HealPruned(t)
            => \A r \in Records(PruneMissing(heap, data, t.snap).heap, PruneMissing(heap, data, t.snap).data) :
                 (r \notin Records(heap', data') /\ tasks' # tasks \ {t})
                   => \E x \in tasks' : x.op = "maintain" /\ \E u \in x.snap : u.Id = r.containerId]_vars

(***************************************************************************)
(* Properties of operations that overlap on one proxy                      *)
(***************************************************************************)
\* C28: once removeProxy(id) has completed, no record and no unit for that
\* proxy comes back unless a new create is requested: a rotateProxy(id)
\* that had read the record before the removal does not recreate the proxy
\* when its restart call finds the unit gone.
RemovedStaysRemoved ==
  [][\A t \in tasks :
       (/\ t.op = "rotate" /\ t \notin tasks'
        /\ t.id \notin DOMAIN data
        /\ ~HasUnit(units, heap[t.ref].containerId)
        /\ \E c \in Clients : resp[c] = "removed")
         => /\ {u.Id : u \in units'} \subseteq {u.Id : u \in units}
            /\ DOMAIN data' \subseteq DOMAIN data
            /\ ~\E x \in tasks' : x.owner = t.owner /\ x.pc \in {"createContainer", "start"}]_vars

\* C29: two createProxy calls that are in flight at the same time without
\* caller-supplied ports never both end with a persisted record on the
\* same port.  (The other call was still in flight when this one had
\* allocated: its record is younger than this one's unit.)
OverlappingCreatesDistinctPorts ==
  [][\A t \in tasks :
       (StartOk(t) /\ t.op = "create" /\ t.owner[1] = "client")
         => ~\E r \in Records(heap, data) :
               /\ r.port = t.port /\ r.id # t.nid
               /\ r.createdAt > UnitOf(units, t.nid).Created
               /\ \E d \in Clients : d # t.owner[2] /\ resp[d] = "created"]_vars

(***************************************************************************)
(* Properties of one reconciliation run                                    *)
(***************************************************************************)
\* C30: after reconcileContainers() completes with nothing else running,
\* every listed unit is referenced by exactly one record and every record
\* references a listed unit; a record synthesized for a previously
\* unmatched unit takes its id and port from the unit's labels, healthy from
\* whether the unit is running, restarts=0 and exitIp unset; the records of
\* already-matched units are left unchanged.
ReconcileMatchesFleet ==
  (Len(call.after) >= 1 /\ call.ops[1] = "reconcile") =>
    LET R == call.after[1].records
        U == call.after[1].units
    IN /\ U = call.before.units
       /\ \A u \in U : Cardinality({r \in R : r.containerId = u.Id}) = 1
       /\ \A r \in R : \E u \in U : u.Id = r.containerId
       /\ \A u \in U :
            (~\E b \in call.before.records : b.containerId = u.Id)
              => \E r \in R :
                   /\ r.containerId = u.Id /\ r.id = u.Id /\ r.port = u.port
                   /\ r.healthy = (u.State = "running")
                   /\ r.restarts = 0 /\ r.exitIp = NoIp
       /\ Backed(call.before.records, call.before.units) \subseteq R

\* a reconciliation has synthesized a record for a unit that is not
\* running, beside a matched record it kept and an unbacked one it dropped
SynthesizedForStopped ==
  /\ Len(call.after) >= 1 /\ call.ops[1] = "reconcile"
  /\ \E u \in call.before.units :
       /\ u.State # "running"
       /\ ~\E b \in call.before.records : b.containerId = u.Id
       /\ \E r \in call.after[1].records : r.containerId = u.Id /\ ~r.healthy
  /\ call.after[1].records \cap call.before.records # {}

\* C31: for a proxy that never becomes healthy, the control loop rotates at
\* most 3 times in total, the rotations that recreate it under a new
\* record id included.
RotationsWithinCeiling == hist.heals <= RESTART_CEILING

\* C32: with the control loop scheduled fairly, every record of the
\* registry eventually is healthy, is removed, or has restarts at or above
\* the ceiling of 3.
EventuallySettled ==
  \A id \in Ids :
    (id \in DOMAIN data) ~> \/ id \notin DOMAIN data
                            \/ heap[data[id]].healthy
                            \/ heap[data[id]].restarts >= RESTART_CEILING

\* C33: every checkProxyHealth call eventually returns a result, also when
\* the proxy port accepts the connection and the address endpoint never
\* answers.
ProbesReturn ==
  \A c \in Clients : Busy(tasks, Client(c)) ~> ~Busy(tasks, Client(c))

\* C34: registry.update on an id the registry does not hold changes nothing
\* and raises no error: a probe or a rotate that finishes after its record
\* was removed leaves the registry and the store as they are, answers as
\* usual, and the record of that id is not back.
LateUpdateChangesNothing ==
  [][\A t \in tasks :
       (t.id \notin DOMAIN data)
         => /\ ((\E ip \in IPs : ProbeOk(t, ip)) \/ ProbeFail(t) \/ RotateRestartOk(t))
                 => /\ data' = data
                    /\ Records(heap', data') = Records(heap, data)
                    /\ store' = store
                    /\ \A c \in Clients : resp'[c] \in {resp[c], "healthy", "unhealthy", "rotated"}
            /\ (StartOk(t) /\ t.op \in rotating) => t.id \notin DOMAIN data']_vars

\* an update has been called for an id whose record had been removed, and
\* the record is not there
LateUpdateHappened == \E id \in hist.late : id \notin DOMAIN data

\* C35: whenever the operations called so far have all completed, the
\* persisted store holds exactly the records, field by field, of the
\* in-memory registry.
StoreMatchesRegistry == tasks = {} => store = Records(heap, data)

\* C36: a createProxy call that fails leaves no farm-labelled unit behind:
\* every unit of the runtime belongs to a record or to a createProxy that
\* is still in flight.
FailedCreateLeavesNoUnit ==
  \A u \in units : \/ \E r \in Records(heap, data) : r.containerId = u.Id
                   \/ \E t \in tasks : t.nid = u.Id

\* C37: checkProxyHealth probes through the proxy's own port first and
\* starts the auxiliary probe only while that first probe has given no
\* address; a probe that returns a well-formed address, whichever it is,
\* makes the record healthy with that address, and an address from the
\* first probe ends checkProxyHealth without the auxiliary probe.
PortProbeFirst ==
  [][\A t \in tasks :
       /\ ProbeStage(t, "sidecar") => t.pc \in {"dial", "request", "handshake"}
       /\ \A ip \in IPs :
            ProbeOk(t, ip)
              => /\ t.snap \cap {"dial", "handshake"} # {}
                 /\ t.pc = "request" => "sidecar" \notin t.snap
                 /\ t.id \in DOMAIN data
                      => heap'[data'[t.id]].healthy /\ heap'[data'[t.id]].exitIp = ip]_vars

\* checkProxyHealth has ended healthy on the address of the auxiliary probe, after
\* the request through the proxy port had brought none
HealthyByAuxiliary ==
  /\ call.kind = "probe"
  /\ call.last.result.healthy
  /\ {"request", "sidecar"} \subseteq call.last.stages
  /\ \E id \in DOMAIN data : id = call.last.result.proxyId /\ heap[data[id]].healthy

\* C38: the runtime-aware allocatePort returns no port that the
\* proxyfarm.port label of a unit in the runtime carries, whether or not a
\* record stands for that unit; when the runtime cannot be listed it still
\* answers, with the smallest port that no record holds and the caller
\* did not exclude.
AllocationAvoidsLabels ==
  call.by = "runtime" =>
    /\ call.listOk /\ call.out # None => call.out \notin {u.port : u \in units}
    /\ ~call.listOk => call.out = SmallestFree({r.port : r \in call.before} \cup call.exclude)

\* the listing failed and the allocation handed out a port that a unit
\* without a record carries in its label
UnlistedLabelHandedOut ==
  /\ call.by = "runtime" /\ ~call.listOk
  /\ \E u \in units : /\ u.port = call.out
                      /\ ~\E r \in call.before : r.containerId = u.Id \/ r.port = u.port

\* C39: a record is healthy only as the result of a probe that observed an
\* egress address: whenever a record comes to be in the registry as
\* healthy, it has its exitIp set.
HealthyOnlyWithAddress ==
  [][\A r \in Records(heap', data') :
       (r.healthy /\ r \notin Records(heap, data)) => r.exitIp \in IPs]_vars

\* C40: a record that a cli invocation added while the service is up is
\* not lost: no later save of the service writes the store without it.
CliRecordKept ==
  call.kind = "cli" => \A id \in call.added : \E r \in store : r.id = id

====
